---- MODULE Spec2Model ----
(***************************************************************************)
(* Order lifecycle of the Predict.Fun liquidity bot: OrderManager          *)
(* (src/order_manager.py) and the reactive controller in src/gui.py.       *)
(* One market is modelled; the trading API is the environment.             *)
(***************************************************************************)
EXTENDS Integers, FiniteSets, Sequences, TLC

\* ---------------------------------------------------------------- bounds
MaxFaults == 1        \* abnormal API events (failed responses, fills) in Spec
MaxEvents == 2        \* book updates and button presses in Spec
MaxPfq == 2           \* simultaneous _place_orders_thread threads
MaxCalls == 3         \* repeated placeFromQuote calls in SpecPfq
LockTimeout == 2       \* the timeout of a read, in clock ticks
MaxReads == 3          \* get_active_orders / get_stats calls in SpecRead
MaxWrites == 2         \* lock sections that write the state in SpecRead
CallFaults == 7        \* failed responses one place_order / cancel_order may meet
LiveEvents == 1        \* controller events (updates, toggles) in SpecLive
LiveFaults == 1        \* abnormal events, of any kind, in SpecLive
MaxSize == 2           \* position sizes an update may carry: 0..MaxSize
MaxUpdates == 4        \* calls of the settings manager in SpecSet
MaxGap == 2            \* best ask minus best bid, in price steps, in SpecFixed
ReactFaults == 1        \* failed requests in SpecReact
LockFaults == 2        \* abnormal events in SpecLock
MaxLockOps == 2        \* calls of the manager started in SpecLock
MaxIdCalls == 4        \* place_order / cancel_order calls in SpecId

\* ------------------------------------------------------ program constants
max_attempts == 3     \* order_manager.py: retry ceiling of place/cancel/list
DelayShort == 1       \* seconds: network error, 5xx, reconciliation wait
Delay429First == 30   \* seconds after the first 429
Delay429Second == 65  \* seconds after the second 429
DelayList == 30       \* seconds between list-open-orders attempts

Outcomes == {"yes", "no"}
Mids == {1, 2}        \* mid prices, in units larger than the 0.0001 epsilon
FloorPrice == 1        \* tick index of the absolute floor 0.001
DEFAULT_POSITION_SIZE_USDT == 100
MIN_ORDER_VALUE_USD == 10000   \* 1.0 dollar, in tenths of a share times ticks
MinTick == 1                   \* 0.001, the lowest price, in ticks of 0.001
MaxTick == 999                 \* 0.999, the highest price
CoarseStep == 10               \* 0.01, the price step of a market of precision 2
BpsPerUnit == 10000            \* spread_percent / 100.0, in hundredths of a percent
UnitPrice == 1000              \* 1.0, the sum of a Yes price and its No price
DefaultTarget == 1000000       \* `target_liquidity or 1000.0`, in ticks times shares
DefaultMinSpread2 == 4  \* min_spread or 0.2 cents: twice 0.002, in ticks
Prices == {1, 2, 3}   \* tick indices of order prices

\* An empty slot (active_orders[outcome] is None).
Absent == [order_id |-> 0, price |-> 0, shares |-> 0]

\* Responses of POST /v1/orders as place_order tells them apart.
PlaceResponses == {"ok", "unsucc", "net", "5xx", "429", "401jwt", "400ic", "4xx"}
\* Responses of POST /v1/orders/remove as cancel_order tells them apart.
CancelResponses == {"ok", "unsucc", "net", "5xx", "429", "401jwt", "4xx", "404"}
\* Responses of GET /v1/orders as _get_active_orders_from_api tells them apart.
ListResponses == {"ok", "unsucc", "err", "net"}
\* Responses of the bulk remove of _cancel_orders_by_ids.
BulkResponses == {"ok", "unsucc", "err"}

\* Every abnormal event, and the ones explored next to the controller's threads.
AllFaults ==
    ({"place"} \X PlaceResponses) \cup ({"cancel"} \X CancelResponses)
        \cup ({"list"} \X ListResponses) \cup ({"bulk"} \X BulkResponses)
        \cup {<<"lock", "busy">>}
SpecFaults == {<<"place", "400ic">>, <<"cancel", "net">>, <<"lock", "busy">>}

VARIABLES
    active,        \* OrderManager.active_orders: outcome -> order or Absent
    stats,         \* OrderManager.stats: placed, cancelled
    last_mid,      \* OrderManager.last_mid_price_yes (0 is None)
    om_placing,    \* OrderManager.placing_orders
    exch,          \* orders resting at the trading API: set of [id, o]
    next_id,       \* next order id the trading API hands out
    budget,        \* abnormal events still allowed: how many, of which kinds
    token_ok,      \* market_info names a token id for each outcome
    call,          \* running place_order / cancel_order executions
    pfq,           \* _place_orders_thread threads (place_orders_from_preliminary)
    rc,            \* per outcome: _cancel_order_thread or re-pricing thread
    ca,            \* _cancel_orders_thread: "idle", "run", or its last result
    orders_placed, \* TokenFrame.orders_placed: quoting enabled
    cancelling,    \* TokenFrame.cancelling_yes / cancelling_no
    placing,       \* TokenFrame.placing_yes / placing_no
    g_placing,     \* TokenFrame.placing_orders
    last_orderbook,\* TokenFrame.last_orderbook (NoBook is None)
    auto_spread,   \* settings.auto_spread_enabled
    events,        \* book updates and button presses so far
    lock,          \* OrderManager.lock as a reader meets it: "free" or its holder
    reader,        \* a get_active_orders / get_stats call and what it returned
    store,         \* SettingsManager.settings of the market: no entry, or one
    file,          \* the settings file as save_settings left it
    sz,            \* one run of the sizing step of a quote
    calc,          \* one run of a function of the order calculator
    ws             \* PredictWebSocketClient: its fields and its _on_open run

guiVars == <<orders_placed, cancelling, placing, g_placing, last_orderbook,
             auto_spread, events>>
thrVars == <<pfq, rc, ca>>
\* Written only by the readers of the state and the lock sections they meet.
\* Written only by the settings manager and by the sizing step.
setVars == <<store, file, sz, calc, ws>>
sideVars == <<lock, reader, store, file, sz, calc, ws>>
vars == <<active, stats, last_mid, om_placing, exch, next_id, budget, token_ok,
          call, pfq, rc, ca, orders_placed, cancelling, placing, g_placing,
          last_orderbook, auto_spread, events, lock, reader, store, file, sz,
          calc, ws>>

\* The market-data client as constructed (websocket_client.py 17-35): not
\* running, not connected, no subscription; no _on_open in progress.
IdleWs ==
    [running |-> FALSE, connected |-> FALSE, subscriptions |-> {}, pc |-> "idle",
     todo |-> {}, sent |-> {}, pend |-> {}, wanted |-> {}, dropped |-> {}]

\* ------------------------------------------------------------- executions
\* An execution of place_order or cancel_order is identified by the thread
\* that runs it: <<"p", 0, o>> the place_yes/place_no (and flush cancel)
\* thread of place_orders_from_preliminary, <<"r", 0, o>> the reactive
\* cancel / re-pricing thread of outcome o, <<"a", 0, o>> the cancel_yes /
\* cancel_no thread of a cancel_all_orders run by _cancel_orders_thread.
CallIds == {"p", "r", "a"} \X {0} \X Outcomes

OutcomeOf(c) == c[3]

IdleCall ==
    [op |-> "idle", pc |-> "idle", price |-> 0, shares |-> 0, attempt |-> 0,
     resp |-> "-", rid |-> 0, oid |-> 0, ids |-> {}, lattempt |-> 0,
     nreq |-> 0, nrecon |-> 0, nrefresh |-> 0, refreshed |-> "-", recon |-> "-",
     delay |-> 0, result |-> "-"]

Done(rec, res) == [rec EXCEPT !.pc = "done", !.result = res]

\* Sizing is a function of the price (order_calculator.py): more shares at a
\* lower price.
SharesFor(price) == 4 - price

\* place_order up to its first request: the token id lookup fails the call.
NewPlace(price, shares) ==
    IF token_ok
    THEN [IdleCall EXCEPT !.op = "place", !.pc = "req", !.price = price,
                          !.shares = shares, !.attempt = 1]
    ELSE Done([IdleCall EXCEPT !.op = "place", !.price = price,
                               !.shares = shares], "fail")

\* A faulty variant of NewCancel: whoever starts the cancel has sent its first
\* request itself and holds the answer.
NewCancel_Inline ==
    [IdleCall EXCEPT !.op = "cancel", !.pc = "resp", !.attempt = 1,
                     !.resp = "net", !.nreq = 1]

\* cancel_order handed to a thread that has not run yet.
NewCancel == [IdleCall EXCEPT !.op = "cancel", !.pc = "begin"]

\* `continue` of the `for attempt in range(1, max_attempts + 1)` loop: the
\* next iteration, or the end of the loop (the function returns None).
Continue(rec, d) ==
    IF rec.attempt < max_attempts
    THEN [rec EXCEPT !.attempt = rec.attempt + 1, !.pc = "req", !.delay = d]
    ELSE Done(rec, "fail")

\* A faulty variant of Retry: `attempt <= max_attempts` for `attempt < max_attempts`.
Retry_OffByOne(rec, d) ==
    IF rec.attempt <= max_attempts
    THEN [rec EXCEPT !.attempt = rec.attempt + 1, !.pc = "req", !.delay = d]
    ELSE Done(rec, "fail")

\* should_retry: sleep(d) and continue while attempts remain, else fail.
Retry(rec, d) ==
    IF rec.attempt < max_attempts
    THEN [rec EXCEPT !.attempt = rec.attempt + 1, !.pc = "req", !.delay = d]
    ELSE Done(rec, "fail")

\* A faulty variant of Delay429: the same delay after every attempt.
Delay429_Flat(attempt) == Delay429First

\* Lines 454-459 and 621-626: 30 seconds after the first attempt, 65 after
\* the second.
Delay429(attempt) == IF attempt = 1 THEN Delay429First ELSE Delay429Second

\* An abnormal event happens: a failed response r to a request of kind op,
\* or a busy lock (<<"lock", "busy">>).
Fault(op, r) ==
    /\ budget.n > 0
    /\ <<op, r>> \in budget.kinds
    /\ budget' = [budget EXCEPT !.n = @ - 1]

Spend(op, r, normal) == IF r \in normal THEN budget' = budget ELSE Fault(op, r)

Resting(id) == \E x \in exch : x.id = id

\* ------------------------------------------------------------ place_order
\* requests.post(/v1/orders): the request reaches the API, which answers r;
\* an accepted order rests at the API from now on.
PlaceRequest(c, r) ==
    /\ call[c].op = "place" /\ call[c].pc = "req"
    /\ Spend("place", r, {"ok"})
    /\ IF r = "ok"
       THEN /\ exch' = exch \cup {[id |-> next_id, o |-> OutcomeOf(c)]}
            /\ next_id' = next_id + 1
       ELSE UNCHANGED <<exch, next_id>>
    /\ call' = [call EXCEPT ![c] = [@ EXCEPT !.pc = "resp", !.resp = r,
                    !.rid = IF r = "ok" THEN next_id ELSE 0,
                    !.nreq = @ + 1]]
    /\ UNCHANGED <<sideVars, active, stats, last_mid, om_placing, token_ok, guiVars, thrVars>>

\* A faulty variant of PlaceAfter: the reconciliation is not tied to the
\* first attempt.
PlaceAfter_ReconcileAnyAttempt(rec, refreshed) ==
    CASE rec.resp = "400ic" ->
            [rec EXCEPT !.pc = "list", !.lattempt = 1, !.nrecon = @ + 1,
                        !.recon = "listing"]
      [] rec.resp = "401jwt" ->
            IF refreshed
            THEN Continue([rec EXCEPT !.nrefresh = @ + 1, !.refreshed = "ok"], 0)
            ELSE Done([rec EXCEPT !.nrefresh = @ + 1, !.refreshed = "fail"], "fail")
      [] rec.resp = "429" -> Retry(rec, Delay429(rec.attempt))
      [] rec.resp \in {"5xx", "net"} -> Retry(rec, DelayShort)
      [] OTHER -> Done(rec, "fail")

\* What place_order does with a response that is not a success body.
\* refreshed: the result of _refresh_jwt, used on 401 Invalid JWT only.
PlaceAfter(rec, refreshed) ==
    CASE rec.resp = "400ic" ->
            IF rec.attempt = 1
            THEN [rec EXCEPT !.pc = "list", !.lattempt = 1, !.nrecon = @ + 1,
                             !.recon = "listing"]
            ELSE Done(rec, "fail")
      [] rec.resp = "401jwt" ->
            IF refreshed
            THEN Continue([rec EXCEPT !.nrefresh = @ + 1, !.refreshed = "ok"], 0)
            ELSE Done([rec EXCEPT !.nrefresh = @ + 1, !.refreshed = "fail"], "fail")
      [] rec.resp = "429" -> Retry(rec, Delay429(rec.attempt))
      [] rec.resp \in {"5xx", "net"} -> Retry(rec, DelayShort)
      [] OTHER -> Done(rec, "fail")

\* The order_info installed on success.
OrderInfo(rec) == [order_id |-> rec.rid, price |-> rec.price, shares |-> rec.shares]

\* The slot after a success body: with self.lock: active_orders[outcome] = order_info.
InstallOrder(slots, o, rec) == [slots EXCEPT ![o] = OrderInfo(rec)]

PlaceHandle(c) ==
    /\ call[c].op = "place" /\ call[c].pc = "resp"
    /\ IF call[c].resp = "ok"
       THEN /\ active' = InstallOrder(active, OutcomeOf(c), call[c])
            /\ stats' = [stats EXCEPT !.placed = @ + 1]
            /\ call' = [call EXCEPT ![c] = Done(@, "ok")]
       ELSE /\ \E refreshed \in BOOLEAN :
                 /\ (call[c].resp # "401jwt" => refreshed)
                 /\ call' = [call EXCEPT ![c] = PlaceAfter(@, refreshed)]
            /\ UNCHANGED <<active, stats>>
    /\ UNCHANGED <<sideVars, last_mid, om_placing, exch, next_id, budget, token_ok, guiVars, thrVars>>

\* _get_active_orders_from_api: GET /v1/orders?status=OPEN&marketId=...
ListRequest(c, r) ==
    /\ call[c].op = "place" /\ call[c].pc = "list"
    /\ Spend("list", r, {"ok"})
    /\ call' = [call EXCEPT ![c] = [@ EXCEPT !.pc = "listresp", !.resp = r,
                    !.ids = IF r = "ok" THEN {x.id : x \in exch} ELSE {}]]
    /\ UNCHANGED <<sideVars, active, stats, last_mid, om_placing, exch, next_id, token_ok, guiVars, thrVars>>

\* The list loop, then place_order lines 400-417 on its result.
ListAfter(rec) ==
    CASE rec.resp = "ok" ->
            IF rec.ids # {} THEN [rec EXCEPT !.pc = "bulk"]
            ELSE Done([rec EXCEPT !.recon = "none"], "fail")
      [] rec.resp = "unsucc" ->
            IF rec.lattempt < max_attempts
            THEN [rec EXCEPT !.pc = "list", !.lattempt = @ + 1]
            ELSE Done([rec EXCEPT !.recon = "none"], "fail")
      [] rec.resp = "net" ->
            IF rec.lattempt < max_attempts
            THEN [rec EXCEPT !.pc = "list", !.lattempt = @ + 1, !.delay = DelayList]
            ELSE Done([rec EXCEPT !.recon = "none"], "fail")
      [] OTHER -> Done([rec EXCEPT !.recon = "none"], "fail")

ListHandle(c) ==
    /\ call[c].op = "place" /\ call[c].pc = "listresp"
    /\ call' = [call EXCEPT ![c] = ListAfter(@)]
    /\ UNCHANGED <<sideVars, active, stats, last_mid, om_placing, exch, next_id, budget, token_ok, guiVars, thrVars>>

\* _cancel_orders_by_ids: one POST /v1/orders/remove naming all ids.
BulkRequest(c, r) ==
    /\ call[c].op = "place" /\ call[c].pc = "bulk"
    /\ Spend("bulk", r, {"ok"})
    /\ exch' = IF r = "ok" THEN {x \in exch : x.id \notin call[c].ids} ELSE exch
    /\ call' = [call EXCEPT ![c] = [@ EXCEPT !.pc = "bulkresp", !.resp = r]]
    /\ UNCHANGED <<sideVars, active, stats, last_mid, om_placing, next_id, token_ok, guiVars, thrVars>>

\* Lines 818-826: the slots whose order was named are emptied.
ClearCancelled(slots, ids) ==
    [o \in Outcomes |->
        IF slots[o] # Absent /\ slots[o].order_id \in ids THEN Absent ELSE slots[o]]

\* place_order lines 405-411: the result of _cancel_orders_by_ids is not
\* looked at; sleep(1.0) and continue.
BulkAfter(rec) ==
    Continue([rec EXCEPT !.recon = IF rec.resp = "ok" THEN "cancelled"
                                   ELSE "cancel_failed"], DelayShort)

BulkHandle(c) ==
    /\ call[c].op = "place" /\ call[c].pc = "bulkresp"
    /\ IF call[c].resp = "ok"
       THEN /\ active' = ClearCancelled(active, call[c].ids)
            /\ stats' = [stats EXCEPT !.cancelled = @ + Cardinality(call[c].ids)]
       ELSE UNCHANGED <<active, stats>>
    /\ call' = [call EXCEPT ![c] = BulkAfter(@)]
    /\ UNCHANGED <<sideVars, last_mid, om_placing, exch, next_id, budget, token_ok, guiVars, thrVars>>

\* ----------------------------------------------------------- cancel_order
\* What the exchange answers to a removal of order id, and what it changes.
CancelAnswer(id, r) ==
    /\ r = "ok" => Resting(id)
    /\ r = "404" => ~Resting(id)
    /\ Spend("cancel", r, {"ok", "404"})
    /\ exch' = IF r = "ok" THEN {x \in exch : x.id # id} ELSE exch

\* A faulty variant of NothingToCancel: the empty slot is not noticed.
NothingToCancel_Never(slot) == FALSE

\* Lines 544-547: `if not order`, there is no active order to cancel.
NothingToCancel(slot) == slot = Absent

\* order_id None (str(order_id) if order_id else None, line 484).
NoId == 0

\* Lines 549-552: `if not order_id`, the order that was read has no order id.
NoOrderId(slot) == slot # Absent /\ slot.order_id = NoId

\* Lines 543-571: the slot is read under the lock; an empty slot or an order
\* without order id ends the call, otherwise the first removal request goes out for the id read; the
\* local `order` keeps the order that was read, its price included.
CancelBegin(c, r) ==
    /\ call[c].op = "cancel" /\ call[c].pc = "begin"
    /\ IF NothingToCancel(active[OutcomeOf(c)]) \/ NoOrderId(active[OutcomeOf(c)])
       THEN /\ call' = [call EXCEPT ![c] = Done(@, "fail")]
            /\ UNCHANGED <<exch, budget>>
       ELSE /\ CancelAnswer(active[OutcomeOf(c)].order_id, r)
            /\ call' = [call EXCEPT ![c] =
                    [@ EXCEPT !.pc = "resp", !.attempt = 1, !.resp = r, !.nreq = 1,
                              !.oid = active[OutcomeOf(c)].order_id,
                              !.price = active[OutcomeOf(c)].price]]
    /\ UNCHANGED <<sideVars, active, stats, last_mid, om_placing, next_id, token_ok, guiVars, thrVars>>

\* requests.post(/v1/orders/remove) of a later attempt: 404 is the answer for
\* an order that no longer rests, a success body the answer for one that did.
CancelRequest(c, r) ==
    /\ call[c].op = "cancel" /\ call[c].pc = "req"
    /\ CancelAnswer(call[c].oid, r)
    /\ call' = [call EXCEPT ![c] = [@ EXCEPT !.pc = "resp", !.resp = r, !.nreq = @ + 1]]
    /\ UNCHANGED <<sideVars, active, stats, last_mid, om_placing, next_id, token_ok, guiVars, thrVars>>

\* What cancel_order does with a response that is neither 404 nor a success body.
CancelAfter(rec, refreshed) ==
    CASE rec.resp = "401jwt" ->
            IF refreshed
            THEN Continue([rec EXCEPT !.nrefresh = @ + 1, !.refreshed = "ok"], 0)
            ELSE Done([rec EXCEPT !.nrefresh = @ + 1, !.refreshed = "fail"], "fail")
      [] rec.resp = "429" -> Retry(rec, Delay429(rec.attempt))
      [] rec.resp \in {"5xx", "net"} -> Retry(rec, DelayShort)
      [] OTHER -> Done(rec, "fail")

\* A faulty variant of CancelSucceeded: 404 is handled like any other error.
CancelSucceeded_OnlyOk(resp) == resp = "ok"

\* Lines 575-582 and 644-652: a 404 or a success body ends the call with True.
CancelSucceeded(resp) == resp \in {"ok", "404"}

CancelHandle(c) ==
    /\ call[c].op = "cancel" /\ call[c].pc = "resp"
    /\ IF CancelSucceeded(call[c].resp)
       THEN /\ active' = [active EXCEPT ![OutcomeOf(c)] = Absent]
            /\ stats' = [stats EXCEPT !.cancelled = @ + 1]
            /\ call' = [call EXCEPT ![c] = Done(@, "ok")]
       ELSE /\ \E refreshed \in BOOLEAN :
                 /\ (call[c].resp # "401jwt" => refreshed)
                 /\ call' = [call EXCEPT ![c] = CancelAfter(@, refreshed)]
            /\ UNCHANGED <<active, stats>>
    /\ UNCHANGED <<sideVars, last_mid, om_placing, exch, next_id, budget, token_ok, guiVars, thrVars>>

CallStep(c) ==
    \/ \E r \in PlaceResponses : PlaceRequest(c, r)
    \/ PlaceHandle(c)
    \/ \E r \in ListResponses : ListRequest(c, r)
    \/ ListHandle(c)
    \/ \E r \in BulkResponses : BulkRequest(c, r)
    \/ BulkHandle(c)
    \/ \E r \in CancelResponses : CancelBegin(c, r)
    \/ \E r \in CancelResponses : CancelRequest(c, r)
    \/ CancelHandle(c)

\* ------------------------------------------- place_orders_from_preliminary
PfqIds == 1..MaxPfq
PCall(o) == <<"p", 0, o>>
RCall(o) == <<"r", 0, o>>
ACall(o) == <<"a", 0, o>>

\* What the controller keeps of a book: the mid price and, per outcome,
\* whether the quote is admissible ("ok"), short of liquidity ("liq") or
\* admissible in liquidity but not in spread ("spread").
CanVals == {"ok", "liq", "spread"}
Books == {b \in [mid : Mids, can : [Outcomes -> CanVals]] : b.can["no"] # "liq"}
NoBook == [mid |-> 0, can |-> [o \in Outcomes |-> "-"]]

\* can_place_yes / can_place_no of calculate_limit_orders.
CanPlace(book, o) == book.can[o] = "ok"

\* buy_yes.price / buy_no.price of the quote, a function of the book.
QuotePrice(mid, o) == IF o = "yes" THEN mid + 1 ELSE 4 - mid

IdlePfq ==
    [pc |-> "idle", mid |-> 0, valid |-> TRUE,
     can |-> [o \in Outcomes |-> FALSE],
     sub |-> [o \in Outcomes |-> "-"], result |-> "-"]

\* A call place_orders_from_preliminary(order_info, mid_price_yes) about to
\* start; valid says that order_info carries both buy_yes and buy_no.
NewPfq(book, valid) ==
    [IdlePfq EXCEPT !.pc = "start", !.mid = book.mid, !.valid = valid,
                    !.can = [o \in Outcomes |-> CanPlace(book, o)]]

FreePfq == {k \in PfqIds : pfq[k].pc = "idle"}
FirstFreePfq == CHOOSE k \in FreePfq : \A j \in FreePfq : k <= j

\* A faulty variant of PfqGuarded: the flag is not looked at.
PfqGuarded_Never(flag) == FALSE

\* Lines 901-904: a call that finds placing_orders set returns True at once.
PfqGuarded(flag) == flag

\* A faulty variant of MidMoved: the first call counts as a move too.
MidMoved_FirstCallToo(last, mid) == last # mid

\* Line 909: the mid price moved by more than 0.0001 since the last call.
MidMoved(last, mid) == last # 0 /\ last # mid

\* Lines 900-919: the guard, then the stale-price flush or straight on to the
\* two placement threads.
PfqEnter(k) ==
    /\ pfq[k].pc = "start"
    /\ IF PfqGuarded(om_placing)
       THEN /\ pfq' = [pfq EXCEPT ![k].pc = "exit", ![k].result = "ok"]
            /\ UNCHANGED <<om_placing, last_mid, call>>
       ELSE /\ om_placing' = TRUE
            /\ IF MidMoved(last_mid, pfq[k].mid)
               THEN /\ call' = [c \in CallIds |->
                            IF c[1] = "p" THEN NewCancel ELSE call[c]]
                    /\ pfq' = [pfq EXCEPT ![k].pc = "flush"]
                    /\ UNCHANGED last_mid
               ELSE /\ last_mid' = pfq[k].mid
                    /\ pfq' = [pfq EXCEPT ![k].pc = "place",
                                  ![k].sub = [o \in Outcomes |-> "check"]]
                    /\ UNCHANGED call
    /\ UNCHANGED <<sideVars, active, stats, exch, next_id, budget, token_ok, rc, ca, guiVars>>

\* Lines 912-919: cancel_all_orders has joined its two threads.
PfqFlushJoin(k) ==
    /\ pfq[k].pc = "flush"
    /\ \A o \in Outcomes : call[PCall(o)].pc = "done"
    /\ last_mid' = pfq[k].mid
    /\ call' = [c \in CallIds |-> IF c[1] = "p" THEN IdleCall ELSE call[c]]
    /\ pfq' = [pfq EXCEPT ![k].pc = "place", ![k].sub = [o \in Outcomes |-> "check"]]
    /\ UNCHANGED <<sideVars, active, stats, om_placing, exch, next_id, budget, token_ok,
                   rc, ca, guiVars>>

\* A faulty variant of ShouldPlace: the slot is not looked at.
ShouldPlace_IgnoreSlot(can, slot) == can

\* Lines 939-943: place only if admissible and the slot is empty.
ShouldPlace(can, slot) == can /\ slot = Absent

\* place_yes / place_no, lines 937-971: the check under the lock, then
\* place_order or a skip that counts as success.
PfqCheck(k, o) ==
    /\ pfq[k].pc = "place" /\ pfq[k].valid /\ pfq[k].sub[o] = "check"
    /\ IF ShouldPlace(pfq[k].can[o], active[o])
       THEN /\ call' = [call EXCEPT ![PCall(o)] =
                    NewPlace(QuotePrice(pfq[k].mid, o),
                             SharesFor(QuotePrice(pfq[k].mid, o)))]
            /\ pfq' = [pfq EXCEPT ![k].sub[o] = "placing"]
       ELSE /\ pfq' = [pfq EXCEPT ![k].sub[o] = "skipped"]
            /\ UNCHANGED call
    /\ UNCHANGED <<sideVars, active, stats, last_mid, om_placing, exch, next_id, budget,
                   token_ok, rc, ca, guiVars>>

PfqSubDone(k, o) ==
    \/ pfq[k].sub[o] = "skipped"
    \/ pfq[k].sub[o] = "placing" /\ call[PCall(o)].pc = "done"

PfqSubOk(k, o) ==
    \/ pfq[k].sub[o] = "skipped"
    \/ pfq[k].sub[o] = "placing" /\ call[PCall(o)].result = "ok"

\* Lines 921-926 and 980-987: a quote without buy_yes or buy_no returns
\* False; otherwise join and return all(results). Either way the finally
\* resets placing_orders.
PfqJoin(k) ==
    /\ pfq[k].pc = "place"
    /\ pfq[k].valid => \A o \in Outcomes : PfqSubDone(k, o)
    /\ pfq' = [pfq EXCEPT ![k].pc = "exit",
                  ![k].result = IF pfq[k].valid /\ \A o \in Outcomes : PfqSubOk(k, o)
                                THEN "ok" ELSE "fail"]
    /\ om_placing' = FALSE
    /\ call' = [c \in CallIds |-> IF c[1] = "p" THEN IdleCall ELSE call[c]]
    /\ UNCHANGED <<sideVars, active, stats, last_mid, exch, next_id, budget, token_ok,
                   rc, ca, guiVars>>

\* _place_orders_thread after the call returned (gui.py 717-722).
PfqExit(k) ==
    /\ pfq[k].pc = "exit"
    /\ g_placing' = FALSE
    /\ placing' = [o \in Outcomes |-> FALSE]
    /\ pfq' = [pfq EXCEPT ![k] = IdlePfq]
    /\ UNCHANGED <<sideVars, active, stats, last_mid, om_placing, exch, next_id, budget,
                   token_ok, call, rc, ca, orders_placed, cancelling,
                   last_orderbook, auto_spread, events>>

\* --------------------------------------------------- reactive controller
\* A task of the reactive controller: old is old_price (0 for None) and book
\* is orderbook_data of the re-pricing run.
IdleRc == [kind |-> "-", pc |-> "idle", old |-> 0, book |-> NoBook]

\* on_orderbook_update, gui.py 3149 and 3192: an order rests, its quote stopped
\* being admissible and no cancel is in progress for the outcome.
Stale(seen, book, o) ==
    seen[o] # Absent /\ ~CanPlace(book, o) /\ ~cancelling[o]

\* A faulty variant of NeedPlace: an outcome is placed only together with the
\* other one.
NeedPlace_BothOrNone(seen, book, o) ==
    \A q \in Outcomes :
        seen[q] = Absent /\ CanPlace(book, q) /\ ~cancelling[q] /\ ~placing[q]

\* gui.py 3237-3238: need_place_yes / need_place_no.
NeedPlace(seen, book, o) ==
    seen[o] = Absent /\ CanPlace(book, o) /\ ~cancelling[o] /\ ~placing[o]

\* A faulty variant of Reprices: auto-spread re-prices whatever the cause.
Reprices_AnyCause(book, o) == auto_spread

\* gui.py 3151-3154 / 3194-3197: re-price when liquidity fell short and auto-spread is on.
Reprices(book, o) == book.can[o] = "liq" /\ auto_spread

\* get_active_orders(timeout=0.1): the slots, or nothing when the lock was busy.
Snapshot(snap) == IF snap THEN active ELSE [o \in Outcomes |-> Absent]

\* A faulty variant of ReactsTo: the controller reacts whether enabled or not.
ReactsTo_Always(enabled) == TRUE

\* gui.py 3125: the reactive part runs only `if token_frame.orders_placed`.
ReactsTo(enabled) == enabled

\* on_orderbook_update, gui.py 3073-3278.
Update(book, snap) ==
    /\ events < MaxEvents
    /\ events' = events + 1
    /\ IF snap THEN budget' = budget ELSE Fault("lock", "busy")
    /\ last_orderbook' = book
    /\ IF ~ReactsTo(orders_placed)
       THEN UNCHANGED <<cancelling, rc, call, placing, g_placing, pfq>>
       ELSE LET seen == Snapshot(snap)
                spawn == (\E o \in Outcomes : NeedPlace(seen, book, o)) /\ ~g_placing
            IN /\ cancelling' = [o \in Outcomes |->
                                    cancelling[o] \/ Stale(seen, book, o)]
               /\ rc' = [o \in Outcomes |->
                            IF Stale(seen, book, o)
                            THEN IF Reprices(book, o)
                                 THEN [kind |-> "reprice", pc |-> "start", old |-> 0,
                                       book |-> book]
                                 ELSE [kind |-> "cancel", pc |-> "cancel", old |-> 0,
                                       book |-> NoBook]
                            ELSE rc[o]]
               /\ call' = [c \in CallIds |->
                            IF /\ c[1] = "r"
                               /\ Stale(seen, book, c[3])
                               /\ ~Reprices(book, c[3])
                            THEN NewCancel ELSE call[c]]
               /\ IF spawn
                  THEN /\ FreePfq # {}
                       /\ g_placing' = TRUE
                       /\ placing' = [o \in Outcomes |->
                                        placing[o] \/ NeedPlace(seen, book, o)]
                       /\ pfq' = [pfq EXCEPT ![FirstFreePfq] = NewPfq(book, TRUE)]
                  ELSE UNCHANGED <<g_placing, placing, pfq>>
    /\ UNCHANGED <<sideVars, active, stats, last_mid, om_placing, exch, next_id, token_ok,
                   ca, orders_placed, auto_spread>>

\* toggle_liquidity, gui.py 561-699: the enable branch.
ToggleOn ==
    /\ events < MaxEvents
    /\ events' = events + 1
    /\ ~orders_placed
    /\ IF last_orderbook = NoBook
       THEN orders_placed' = TRUE /\ UNCHANGED pfq
       ELSE IF \A o \in Outcomes : ~CanPlace(last_orderbook, o)
            THEN orders_placed' = FALSE /\ UNCHANGED pfq
            ELSE /\ FreePfq # {}
                 /\ orders_placed' = TRUE
                 /\ pfq' = [pfq EXCEPT ![FirstFreePfq] = NewPfq(last_orderbook, TRUE)]
    /\ UNCHANGED <<sideVars, active, stats, last_mid, om_placing, exch, next_id, budget,
                   token_ok, call, rc, ca, cancelling, placing, g_placing,
                   last_orderbook, auto_spread>>

\* toggle_liquidity, gui.py 700-710: the disable branch starts
\* _cancel_orders_thread, which runs cancel_all_orders: one cancel per outcome.
ToggleOff ==
    /\ events < MaxEvents
    /\ events' = events + 1
    /\ orders_placed
    /\ ca # "run"
    /\ orders_placed' = FALSE
    /\ ca' = "run"
    /\ call' = [c \in CallIds |-> IF c[1] = "a" THEN NewCancel ELSE call[c]]
    /\ UNCHANGED <<sideVars, active, stats, last_mid, om_placing, exch, next_id, budget,
                   token_ok, pfq, rc, cancelling, placing, g_placing,
                   last_orderbook, auto_spread>>

\* A faulty variant of CancelAllResult: one success is enough.
CancelAllResult_Any(yes, no) == IF yes = "ok" \/ no = "ok" THEN "ok" ELSE "fail"

\* cancel_all_orders, order_manager.py 883: all(results).
CancelAllResult(yes, no) == IF yes = "ok" /\ no = "ok" THEN "ok" ELSE "fail"

\* cancel_all_orders, order_manager.py 877-883: both threads joined; ca keeps
\* the value returned to _cancel_orders_thread.
CaJoin ==
    /\ ca = "run"
    /\ \A o \in Outcomes : call[ACall(o)].pc = "done"
    /\ ca' = CancelAllResult(call[ACall("yes")].result, call[ACall("no")].result)
    /\ call' = [c \in CallIds |-> IF c[1] = "a" THEN IdleCall ELSE call[c]]
    /\ UNCHANGED <<sideVars, active, stats, last_mid, om_placing, exch, next_id, budget,
                   token_ok, pfq, rc, guiVars>>

\* A faulty variant of RcCancelDone: the flag is cleared in the success branch
\* only.
RcCancelDone_ClearsOnSuccess(o) ==
    /\ rc[o].kind = "cancel" /\ rc[o].pc = "cancel"
    /\ call[RCall(o)].pc = "done"
    /\ cancelling' = [cancelling EXCEPT ![o] = (call[RCall(o)].result # "ok")]
    /\ rc' = [rc EXCEPT ![o] = IdleRc]
    /\ call' = [call EXCEPT ![RCall(o)] = IdleCall]
    /\ UNCHANGED <<sideVars, active, stats, last_mid, om_placing, exch, next_id, budget,
                   token_ok, pfq, ca, orders_placed, placing, g_placing,
                   last_orderbook, auto_spread, events>>

\* _cancel_order_thread, gui.py 769-792: the cancel returned.
RcCancelDone(o) ==
    /\ rc[o].kind = "cancel" /\ rc[o].pc = "cancel"
    /\ call[RCall(o)].pc = "done"
    /\ cancelling' = [cancelling EXCEPT ![o] = FALSE]
    /\ rc' = [rc EXCEPT ![o] = IdleRc]
    /\ call' = [call EXCEPT ![RCall(o)] = IdleCall]
    /\ UNCHANGED <<sideVars, active, stats, last_mid, om_placing, exch, next_id, budget,
                   token_ok, pfq, ca, orders_placed, placing, g_placing,
                   last_orderbook, auto_spread, events>>

\* _recalculate_and_place_order_autospread, gui.py 800-815: remember the old
\* price (0 when the snapshot failed), then cancel.
RcOld(o, snap) ==
    /\ rc[o].kind = "reprice" /\ rc[o].pc = "start"
    /\ IF snap THEN budget' = budget ELSE Fault("lock", "busy")
    /\ rc' = [rc EXCEPT ![o].pc = "cancel", ![o].old = Snapshot(snap)[o].price]
    /\ call' = [call EXCEPT ![RCall(o)] = NewCancel]
    /\ UNCHANGED <<sideVars, active, stats, last_mid, om_placing, exch, next_id, token_ok,
                   pfq, ca, guiVars>>

\* gui.py 870-925: the new price is placed unless it is not positive, is at
\* the floor, has too little liquidity ahead of it, or equals the old price.
RepriceGoes(new_price, liq_ok, old) ==
    /\ new_price > 0
    /\ new_price > FloorPrice
    /\ liq_ok
    /\ ~(old # 0 /\ new_price = old)

\* A faulty variant of RecalcBook: the book the run was started with.
RecalcBook_Passed(passed) == passed

\* gui.py 836-837: the last book stored by an update replaces the one the run
\* was started with.
RecalcBook(passed) == IF last_orderbook # NoBook THEN last_orderbook ELSE passed

\* A faulty variant of RcRecalc: a run that cannot place starts over.
RcRecalc_Retries(o, new_price, liq_ok) ==
    /\ rc[o].kind = "reprice" /\ rc[o].pc = "cancel"
    /\ call[RCall(o)].pc = "done"
    /\ IF call[RCall(o)].result = "ok" /\ RepriceGoes(new_price, liq_ok, rc[o].old)
       THEN /\ call' = [call EXCEPT ![RCall(o)] =
                            NewPlace(new_price, SharesFor(new_price))]
            /\ rc' = [rc EXCEPT ![o].pc = "place", ![o].book = RecalcBook(rc[o].book)]
       ELSE /\ call' = [call EXCEPT ![RCall(o)] = IdleCall]
            /\ rc' = [rc EXCEPT ![o].pc = "start"]
    /\ UNCHANGED <<sideVars, active, stats, last_mid, om_placing, exch, next_id, budget,
                   token_ok, pfq, ca, orders_placed, placing, g_placing, cancelling,
                   last_orderbook, auto_spread, events>>

\* gui.py 815-949: a failed cancel ends the thread; a successful one is
\* followed by the wait, the recalculation from the last book (new_price and
\* liq_ok are what it yields) and, if the price goes, a direct place_order.
RcRecalc(o, new_price, liq_ok) ==
    /\ rc[o].kind = "reprice" /\ rc[o].pc = "cancel"
    /\ call[RCall(o)].pc = "done"
    /\ IF call[RCall(o)].result = "ok" /\ RepriceGoes(new_price, liq_ok, rc[o].old)
       THEN /\ call' = [call EXCEPT ![RCall(o)] =
                            NewPlace(new_price, SharesFor(new_price))]
            /\ rc' = [rc EXCEPT ![o].pc = "place", ![o].book = RecalcBook(rc[o].book)]
            /\ UNCHANGED cancelling
       ELSE /\ call' = [call EXCEPT ![RCall(o)] = IdleCall]
            /\ rc' = [rc EXCEPT ![o] = IdleRc]
            /\ cancelling' = [cancelling EXCEPT ![o] = FALSE]
    /\ UNCHANGED <<sideVars, active, stats, last_mid, om_placing, exch, next_id, budget,
                   token_ok, pfq, ca, orders_placed, placing, g_placing,
                   last_orderbook, auto_spread, events>>

\* gui.py 949-976: place_order returned, the cancelling flag is cleared.
RcPlaced(o) ==
    /\ rc[o].kind = "reprice" /\ rc[o].pc = "place"
    /\ call[RCall(o)].pc = "done"
    /\ call' = [call EXCEPT ![RCall(o)] = IdleCall]
    /\ rc' = [rc EXCEPT ![o] = IdleRc]
    /\ cancelling' = [cancelling EXCEPT ![o] = FALSE]
    /\ UNCHANGED <<sideVars, active, stats, last_mid, om_placing, exch, next_id, budget,
                   token_ok, pfq, ca, orders_placed, placing, g_placing,
                   last_orderbook, auto_spread, events>>

\* ------------------------------------- get_active_orders and get_stats
\* A value handed to the caller: alias says that it is the manager's own
\* object rather than a fresh one.
NoReturn == [alias |-> FALSE, orders |-> [o \in Outcomes |-> Absent],
             stats |-> [placed |-> 0, cancelled |-> 0]]

IdleReader == [pc |-> "idle", kind |-> "-", waited |-> 0, out |-> "-", ret |-> NoReturn]

\* A faulty variant of CopyOf: the manager's own dictionaries are returned.
CopyOf_Alias(kind) ==
    [alias |-> TRUE,
     orders |-> IF kind = "orders" THEN active ELSE NoReturn.orders,
     stats |-> IF kind = "stats" THEN stats ELSE NoReturn.stats]

\* Lines 997-1000 and 1019: a new dictionary holding .copy() of each order
\* (whose fields are strings and numbers), or self.stats.copy().
CopyOf(kind) ==
    [alias |-> FALSE,
     orders |-> IF kind = "orders" THEN active ELSE NoReturn.orders,
     stats |-> IF kind = "stats" THEN stats ELSE NoReturn.stats]

\* get_active_orders(timeout) / get_stats(timeout) is called.
ReadStart(kind) ==
    /\ reader.pc = "idle"
    /\ events < MaxReads
    /\ events' = events + 1
    /\ reader' = [IdleReader EXCEPT !.pc = "acquire", !.kind = kind]
    /\ UNCHANGED <<setVars, active, stats, last_mid, om_placing, exch, next_id, budget,
                   token_ok, call, thrVars, orders_placed, cancelling, placing,
                   g_placing, last_orderbook, auto_spread, lock>>

\* self.lock.acquire(timeout=timeout) gets the lock.
ReadAcquire ==
    /\ reader.pc = "acquire"
    /\ lock = "free"
    /\ lock' = "reader"
    /\ reader' = [reader EXCEPT !.pc = "locked"]
    /\ UNCHANGED <<setVars, active, stats, last_mid, om_placing, exch, next_id, budget,
                   token_ok, call, thrVars, guiVars>>

\* The lock is held by another thread and the timeout has not run out.
ReadWait ==
    /\ reader.pc = "acquire"
    /\ lock # "free"
    /\ reader.waited < LockTimeout
    /\ reader' = [reader EXCEPT !.waited = @ + 1]
    /\ UNCHANGED <<setVars, active, stats, last_mid, om_placing, exch, next_id, budget,
                   token_ok, call, thrVars, guiVars, lock>>

\* Lines 993-995 and 1015-1017: acquire returned False, TimeoutError is raised.
ReadTimeout ==
    /\ reader.pc = "acquire"
    /\ lock # "free"
    /\ reader.waited = LockTimeout
    /\ reader' = [reader EXCEPT !.pc = "done", !.out = "timeout"]
    /\ UNCHANGED <<setVars, active, stats, last_mid, om_placing, exch, next_id, budget,
                   token_ok, call, thrVars, guiVars, lock>>

\* Lines 996-1002 and 1018-1021: the copy is made and the finally releases
\* the lock.
ReadReturn ==
    /\ reader.pc = "locked"
    /\ reader' = [reader EXCEPT !.pc = "done", !.out = "copy",
                                !.ret = CopyOf(reader.kind)]
    /\ lock' = "free"
    /\ UNCHANGED <<setVars, active, stats, last_mid, om_placing, exch, next_id, budget,
                   token_ok, call, thrVars, guiVars>>

\* The caller changes what it was given: it drops an order from the
\* dictionary of orders, or resets a counter of the statistics. A change to
\* an object of the manager is a change of the manager's state.
CallerChanges(o) ==
    /\ reader.pc = "done" /\ reader.out = "copy"
    /\ reader' = [reader EXCEPT !.pc = "changed",
                                !.ret.orders[o] = Absent,
                                !.ret.stats.placed = 0]
    /\ IF reader.ret.alias /\ reader.kind = "orders"
       THEN active' = [active EXCEPT ![o] = Absent]
       ELSE UNCHANGED active
    /\ IF reader.ret.alias /\ reader.kind = "stats"
       THEN stats' = [stats EXCEPT !.placed = 0]
       ELSE UNCHANGED stats
    /\ UNCHANGED <<setVars, last_mid, om_placing, exch, next_id, budget, token_ok, call,
                   thrVars, guiVars, lock>>

\* The caller is done with the value, or has caught the TimeoutError.
ReadEnd ==
    /\ reader.pc \in {"done", "changed"}
    /\ reader' = IdleReader
    /\ UNCHANGED <<setVars, active, stats, last_mid, om_placing, exch, next_id, budget,
                   token_ok, call, thrVars, guiVars, lock>>

\* Another thread enters one of the manager's `with self.lock` sections.
HolderTake ==
    /\ lock = "free"
    /\ lock' = "holder"
    /\ UNCHANGED <<setVars, active, stats, last_mid, om_placing, exch, next_id, budget,
                   token_ok, call, thrVars, guiVars, reader>>

\* Inside the section the slot of o is written: an order installed (lines
\* 491-493) or removed (lines 647-649).
HolderWrites(o) ==
    /\ lock = "holder"
    /\ stats.placed + stats.cancelled < MaxWrites
    /\ IF active[o] = Absent
       THEN /\ active' = [active EXCEPT ![o] =
                    [order_id |-> next_id, price |-> 2, shares |-> SharesFor(2)]]
            /\ stats' = [stats EXCEPT !.placed = @ + 1]
            /\ next_id' = next_id + 1
       ELSE /\ active' = [active EXCEPT ![o] = Absent]
            /\ stats' = [stats EXCEPT !.cancelled = @ + 1]
            /\ UNCHANGED next_id
    /\ UNCHANGED <<setVars, last_mid, om_placing, exch, budget, token_ok, call, thrVars,
                   guiVars, sideVars>>

\* The section ends.
HolderFree ==
    /\ lock = "holder"
    /\ lock' = "free"
    /\ UNCHANGED <<setVars, active, stats, last_mid, om_placing, exch, next_id, budget,
                   token_ok, call, thrVars, guiVars, reader>>

\* ------------------------------------------------------ order calculator
\* Prices are in ticks of 0.001 dollar; a market of decimalPrecision 3 quotes
\* on every tick, one of precision 2 on every tenth tick. A mid price is kept
\* doubled (bid + ask), a spread in hundredths of a percent.
IdleCalc == [pc |-> "idle"]

Ticks == MinTick..MaxTick

Precisions == {2, 3}
PriceStep(precision) == IF precision = 2 THEN CoarseStep ELSE 1
Grid(precision) == {t \in Ticks : t % PriceStep(precision) = 0}

\* settings.spread_percent: any float the user typed (gui.py 1024-1035).
SpreadBps == {0, 1, 50, 300}

\* Lines 459-460: mid_price_yes and mid_price_no, doubled.
MidTwice(bid, ask, o) == IF o = "yes" THEN bid + ask ELSE 2 * MaxTick + 2 - (bid + ask)

\* round(price, decimal_precision), lines 293-301, of num / den price steps
\* (not negative): the nearest step; a tie goes the way the binary value
\* happens to lean.
RoundSteps(num, den, up) ==
    LET whole == num \div den
        rest == num % den
    IN IF 2 * rest < den THEN whole
       ELSE IF 2 * rest > den THEN whole + 1
       ELSE IF up THEN whole + 1 ELSE whole

\* Line 485-486: max(min(price, 0.999), MIN_ORDER_PRICE).
ClampPrice(price) ==
    LET capped == IF price < MaxTick THEN price ELSE MaxTick
    IN IF capped > MinTick THEN capped ELSE MinTick

\* Lines 477-486: mid * (1 - spread_percent / 100), rounded to the precision
\* of the market and clamped.
FixedSpreadPrice(mid2, bps, precision, up) ==
    ClampPrice(PriceStep(precision)
                 * RoundSteps(mid2 * (BpsPerUnit - bps),
                              2 * BpsPerUnit * PriceStep(precision), up))

CalcStep(rec) ==
    /\ calc' = rec
    /\ UNCHANGED <<active, stats, last_mid, om_placing, exch, next_id, budget,
                   token_ok, call, thrVars, guiVars, lock, reader, store, file, sz, ws>>

\* calculate_limit_orders in fixed-spread mode: both buy prices.
QuoteFixed(upYes, upNo) ==
    /\ calc.pc = "fixed"
    /\ CalcStep([calc EXCEPT
            !.pc = "done",
            !.buy = [o \in Outcomes |->
                FixedSpreadPrice(MidTwice(calc.bid, calc.ask, o), calc.bps,
                                 calc.precision, IF o = "yes" THEN upYes ELSE upNo)]])

\* ------------------------------------------------------ books in detail
\* A side of the book is a sequence of levels [price, shares]: the bids from
\* the highest price down, the asks (of Yes) from the lowest price up.
\* Liquidity is in ticks times shares (thousandths of a dollar).
RECURSIVE SortedDown(_, _)
SortedDown(prices, shares) ==
    IF prices = {} THEN <<>>
    ELSE LET top == CHOOSE p \in prices : \A q \in prices : q <= p
         IN <<[price |-> top, shares |-> shares[top]]>>
                \o SortedDown(prices \ {top}, shares)

RECURSIVE SortedUp(_, _)
SortedUp(prices, shares) ==
    IF prices = {} THEN <<>>
    ELSE LET low == CHOOSE p \in prices : \A q \in prices : p <= q
         IN <<[price |-> low, shares |-> shares[low]]>>
                \o SortedUp(prices \ {low}, shares)

\* calculate_no_price, lines 145-156.
NoPrice(yes_price) == UnitPrice - yes_price

\* Line 92, no_price = 1.0 - yes_price_float, is a subtraction of doubles:
\* for these ask prices (in thousandths) its result is greater than the
\* double nearest to the decimal price of No, for all others it is not.
FloatOver ==
    {59, 61, 172, 174, 176, 178, 180, 182, 184, 186, 283, 285, 287, 289,
     291, 293, 295, 297, 299, 301, 303, 305, 307, 309, 311, 408, 410, 412,
     414, 416, 418, 420, 422, 424, 426, 428, 430, 432, 434, 436, 563, 564,
     565, 566, 567, 568, 569, 570, 571, 572, 573, 574, 575, 576, 577, 578,
     579, 580, 581, 582, 583, 584, 585, 586, 587, 588, 589, 590, 591, 592,
     593, 688, 689, 690, 691, 692, 693, 694, 695, 696, 697, 698, 699, 700,
     701, 702, 703, 704, 705, 706, 707, 708, 709, 710, 711, 712, 713, 714,
     715, 716, 717, 718, 813, 814, 815, 816, 817, 818, 819, 820, 821, 822,
     823, 824, 825, 826, 827, 828, 829, 830, 831, 832, 833, 834, 835, 836,
     837, 838, 839, 840, 841, 842, 843, 844, 845, 846, 847, 848, 849, 850,
     851, 852, 853, 854, 855, 856, 857, 858, 859, 938, 939, 940, 941, 942,
     943, 944, 945, 946, 947, 948, 949, 950, 951, 952, 953, 954, 955, 956,
     957, 958, 959, 960, 961, 962, 963, 964, 965, 966, 967, 968, 969, 970,
     971, 972, 973, 974, 975, 976, 977, 978, 979, 980, 981, 982, 983, 984,
     985, 986, 987, 988, 989, 990, 991, 992, 993, 994, 995, 996, 997, 998,
     999}

\* The levels an outcome has ahead of it, at the price of that outcome; over
\* says that the price computed at line 92 exceeds it.
SideLevels(book, o) ==
    IF o = "yes"
    THEN [i \in 1..Len(book.bids) |->
            [price |-> book.bids[i].price, shares |-> book.bids[i].shares,
             over |-> FALSE]]
    ELSE [i \in 1..Len(book.asks) |->
            [price |-> NoPrice(book.asks[i].price), shares |-> book.asks[i].shares,
             over |-> book.asks[i].price \in FloatOver]]

\* Lines 54 and 97: `price > our_price`, `no_price > our_price_no`.
IsAbove(level, our_price) ==
    level.price > our_price \/ (level.price = our_price /\ level.over)

\* Lines 52-61 and 87-109: the loop over the levels, which ends at the first
\* level that is not strictly above our price.
RECURSIVE LevelsAbove(_, _, _)
LevelsAbove(levels, i, our_price) ==
    IF i > Len(levels) THEN 0
    ELSE IF IsAbove(levels[i], our_price)
         THEN levels[i].price * levels[i].shares + LevelsAbove(levels, i + 1, our_price)
         ELSE 0

\* Lines 114-133: our own order is taken out if it is strictly above.
OwnAbove(own, our_price) ==
    IF own # {} /\ (CHOOSE x \in own : TRUE).price > our_price
    THEN (CHOOSE x \in own : TRUE).price * (CHOOSE x \in own : TRUE).shares
    ELSE 0

\* calculate_liquidity_before_price, lines 18-142; own is {} or {order}.
LiquidityBefore(book, our_price, o, own) ==
    IF book.bids = <<>> \/ book.asks = <<>> THEN 0
    ELSE LET total == LevelsAbove(SideLevels(book, o), 1, our_price)
                        - OwnAbove(own, our_price)
         IN IF total > 0 THEN total ELSE 0

\* A faulty variant of BelowLevel: the price of the level itself.
BelowLevel_Same(price, precision) == price

\* Lines 374, 382, 398 and 407: round(price - tick, decimal_precision).
BelowLevel(price, precision) == price - PriceStep(precision)

\* find_price_by_target_liquidity, lines 333-416: walk the levels until the
\* accumulated liquidity reaches the target; when the levels run out, the
\* price below the last one.
RECURSIVE Walk(_, _, _, _, _)
Walk(levels, i, accumulated, target, precision) ==
    IF i > Len(levels)
    THEN BelowLevel(levels[Len(levels)].price, precision)
    ELSE LET sum == accumulated + levels[i].price * levels[i].shares
         IN IF sum >= target
            THEN BelowLevel(levels[i].price, precision)
            ELSE Walk(levels, i + 1, sum, target, precision)

FindPriceByTargetLiquidity(book, target, o, precision) ==
    IF book.bids = <<>> \/ book.asks = <<>> THEN 0
    ELSE Walk(SideLevels(book, o), 1, 0, target, precision)

\* Lines 464 and 599: settings.target_liquidity or 1000.0.
TargetOr(target) == IF target = 0 THEN DefaultTarget ELSE target

\* Lines 463-486: the walker's price, not further from the mid than the
\* maximal spread, rounded and clamped.
AutoSpreadPrice(book, target, max_spread, o, precision, up) ==
    LET found == FindPriceByTargetLiquidity(book, TargetOr(target), o, precision)
        mid2 == MidTwice(book.bids[1].price, book.asks[1].price, o)
        cand2 == IF 2 * found > mid2 - 2 * max_spread THEN 2 * found
                 ELSE mid2 - 2 * max_spread
    IN ClampPrice(PriceStep(precision)
                    * RoundSteps(cand2, 2 * PriceStep(precision), up))

\* Lines 608-625: at the lowest price the order must keep min_spread (here
\* twice, in ticks) from the mid.
CanPlaceSpread(mid2, price, min_spread2) ==
    ~(price <= MinTick /\ mid2 - 2 * price < min_spread2 /\ 2 * price - mid2 < min_spread2)

\* Line 92 again: for these ask prices (in thousandths) 1.0 - yes_price_float
\* is less than the double nearest to the decimal price of No, so that the
\* product with the shares at line 101 can be less than the product the
\* walker makes of the rounded price (line 387).
FloatUnder ==
    {64, 66, 68, 70, 189, 191, 193, 195, 197, 199, 201, 203, 314, 316,
     318, 320, 322, 324, 326, 328, 330, 332, 334, 336, 338, 340, 342,
     439, 441, 443, 445, 447, 449, 451, 453, 455, 457, 459, 461, 463,
     465, 467, 532, 533, 534, 535, 536, 537, 538, 539, 540, 541, 542,
     543, 544, 545, 546, 547, 548, 549, 550, 551, 552, 553, 554, 555,
     556, 557, 558, 559, 560, 561, 562, 657, 658, 659, 660, 661, 662,
     663, 664, 665, 666, 667, 668, 669, 670, 671, 672, 673, 674, 675,
     676, 677, 678, 679, 680, 681, 682, 683, 684, 685, 686, 687, 766,
     767, 768, 769, 770, 771, 772, 773, 774, 775, 776, 777, 778, 779,
     780, 781, 782, 783, 784, 785, 786, 787, 788, 789, 790, 791, 792,
     793, 794, 795, 796, 797, 798, 799, 800, 801, 802, 803, 804, 805,
     806, 807, 808, 809, 810, 811, 812, 883, 884, 885, 886, 887, 888,
     889, 890, 891, 892, 893, 894, 895, 896, 897, 898, 899, 900, 901,
     902, 903, 904, 905, 906, 907, 908, 909, 910, 911, 912, 913, 914,
     915, 916, 917, 918, 919, 920, 921, 922, 923, 924, 925, 926, 927,
     928, 929, 930, 931, 932, 933, 934, 935, 936, 937}

\* A level that the sum of lines 87-109 includes has such an ask price.
MayFallShort(book, our_price, o) ==
    /\ o = "no"
    /\ \E i \in 1..Len(book.asks) :
         /\ book.asks[i].price \in FloatUnder
         /\ \A j \in 1..i : IsAbove(SideLevels(book, o)[j], our_price)

\* Lines 596-604: liquidity >= min_liquidity, a comparison of doubles: a sum
\* that is the target in exact arithmetic is below it if it fell short (low).
EnoughAhead(book, target, price, o, own, low) ==
    \/ LiquidityBefore(book, price, o, own) > TargetOr(target)
    \/ /\ LiquidityBefore(book, price, o, own) = TargetOr(target)
       /\ ~(low /\ MayFallShort(book, price, o))

\* Lines 586-637 in auto-spread mode: the liquidity ahead of the price
\* reaches the target, and the spread check passes.
CanPlaceAuto(book, target, price, o, own, min_spread2, low) ==
    /\ EnoughAhead(book, target, price, o, own, low)
    /\ CanPlaceSpread(MidTwice(book.bids[1].price, book.asks[1].price, o),
                      price, min_spread2)

\* calculate_limit_orders in auto-spread mode: for each outcome what the
\* walker returned, the buy price, liquidity_ok and can_place.
QuoteAuto(upYes, upNo, low) ==
    /\ calc.pc = "auto"
    /\ CalcStep([calc EXCEPT
            !.pc = "done",
            !.found = [o \in Outcomes |->
                FindPriceByTargetLiquidity(calc.book, TargetOr(calc.target), o,
                                           calc.precision)],
            !.buy = [o \in Outcomes |->
                AutoSpreadPrice(calc.book, calc.target, calc.max_spread, o,
                                calc.precision, IF o = "yes" THEN upYes ELSE upNo)],
            !.enough = [o \in Outcomes |->
                EnoughAhead(calc.book, calc.target,
                    AutoSpreadPrice(calc.book, calc.target, calc.max_spread, o,
                                    calc.precision, IF o = "yes" THEN upYes ELSE upNo),
                    o, calc.own[o], low[o])],
            !.can = [o \in Outcomes |->
                CanPlaceAuto(calc.book, calc.target,
                    AutoSpreadPrice(calc.book, calc.target, calc.max_spread, o,
                                    calc.precision, IF o = "yes" THEN upYes ELSE upNo),
                    o, calc.own[o], calc.min_spread2, low[o])]])

\* ------------------------------------------------------------ sizing step
\* Prices are in ticks of 0.001 dollar, configured sizes in hundredths (of a
\* dollar or of a share), a share count before rounding is the exact fraction
\* n / d, after rounding a number of tenths.
Sizes == {-100, 0, 25, 1025, 10000}
SizeKinds == {"usdt", "shares"}

IdleSz == [pc |-> "idle", kind |-> "-", size |-> 0, price |-> 0,
           n |-> 0, d |-> 1, rounded |-> 0, tenths |-> 0]

\* calculate_shares_from_usdt, order_calculator.py 220-233.
SharesFromUsdt(size, price) ==
    IF price <= 0 THEN [n |-> 0, d |-> 1] ELSE [n |-> size * 10, d |-> price]

\* adjust_to_min_order_value, lines 250-276: shares * price < 1.0 raises the
\* shares to 1.0 / price.
AdjustToMin(q, price) ==
    IF price <= 0
    THEN IF q.n < 1000 * q.d THEN [n |-> 1000, d |-> 1] ELSE q
    ELSE IF q.n * price < 1000 * q.d THEN [n |-> 1000, d |-> price] ELSE q

\* round(shares, 1), line 320, of a share count that is not negative: the
\* nearest tenth; a tie goes the way the binary value happens to lean.
RoundToTenths(q, up) ==
    LET whole == (10 * q.n) \div q.d
        rest == (10 * q.n) % q.d
    IN IF 2 * rest < q.d THEN whole
       ELSE IF 2 * rest > q.d THEN whole + 1
       ELSE IF up THEN whole + 1 ELSE whole

\* A faulty variant of BelowMin: the order value is never found too small.
BelowMin_Never(tenths, price) == FALSE

\* Line 326: order_value < MIN_ORDER_VALUE_USD.
BelowMin(tenths, price) == tenths * price < MIN_ORDER_VALUE_USD

\* The product is exactly 1.0: the float product may fall on either side.
AtMin(tenths, price) == tenths * price = MIN_ORDER_VALUE_USD

SizeStep(rec) ==
    /\ sz' = rec
    /\ UNCHANGED <<active, stats, last_mid, om_placing, exch, next_id, budget,
                   token_ok, call, thrVars, guiVars, lock, reader, store, file, calc, ws>>

\* order_calculator.py 489-560 and gui.py 927-934: the shares of the
\* configured size.
SizeShares ==
    /\ sz.pc = "start"
    /\ LET q == IF sz.kind = "usdt" THEN SharesFromUsdt(sz.size, sz.price)
                ELSE [n |-> sz.size, d |-> 100]
       IN SizeStep([sz EXCEPT !.pc = "adjust", !.n = q.n, !.d = q.d])

SizeAdjust ==
    /\ sz.pc = "adjust"
    /\ LET q == AdjustToMin([n |-> sz.n, d |-> sz.d], sz.price)
       IN SizeStep([sz EXCEPT !.pc = "round", !.n = q.n, !.d = q.d])

\* round_shares_to_tenths, lines 319-323.
SizeRound(up) ==
    /\ sz.pc = "round"
    /\ LET t == RoundToTenths([n |-> sz.n, d |-> sz.d], up)
       IN SizeStep([sz EXCEPT !.pc = "repair", !.rounded = t, !.tenths = t])

\* Lines 326-328: one iteration of the while loop.
SizeRepair ==
    /\ sz.pc = "repair"
    /\ BelowMin(sz.tenths, sz.price) \/ AtMin(sz.tenths, sz.price)
    /\ SizeStep([sz EXCEPT !.tenths = @ + 1])

\* Line 330: the loop ended, shares_rounded is returned.
SizeReturn ==
    /\ sz.pc = "repair"
    /\ ~BelowMin(sz.tenths, sz.price)
    /\ SizeStep([sz EXCEPT !.pc = "done"])

\* ---------------------------------------------------- settings manager
\* An Optional[float] is a set: {} for None, {v} for the value v.
DEFAULT_POSITION_SIZE_SHARES == {}

SizeArgs == {{}} \cup {{v} : v \in 0..MaxSize}

\* TokenSettings(market_id), lines 19-43.
DefaultSettings ==
    [position_size_usdt |-> {DEFAULT_POSITION_SIZE_USDT},
     position_size_shares |-> DEFAULT_POSITION_SIZE_SHARES,
     is_custom |-> FALSE]

\* get_settings, settings_manager.py 123-140: the entry of the market, created with the
\* defaults if there is none.
GetSettings(st) == IF st = {} THEN DefaultSettings ELSE CHOOSE r \in st : TRUE

\* Lines 177-180: a position size in USDT was given.
SetUsdt(r, usdt) ==
    IF usdt # {}
    THEN [r EXCEPT !.position_size_usdt = usdt, !.position_size_shares = {},
                   !.is_custom = TRUE]
    ELSE r

\* A faulty variant of SetShares: the USDT size is left as it was.
SetShares_KeepsUsdt(r, shares) ==
    IF shares # {}
    THEN [r EXCEPT !.position_size_shares = shares, !.is_custom = TRUE]
    ELSE r

\* Lines 183-186: a position size in shares was given.
SetShares(r, shares) ==
    IF shares # {}
    THEN [r EXCEPT !.position_size_shares = shares, !.position_size_usdt = {},
                   !.is_custom = TRUE]
    ELSE r

\* json.dump / json.load of an Optional[float]: null or a number.
ToJson(opt) ==
    IF opt = {} THEN [null |-> TRUE, num |-> 0]
    ELSE [null |-> FALSE, num |-> CHOOSE v \in opt : TRUE]

FromJson(j) == IF j.null THEN {} ELSE {j.num}

\* to_dict, lines 45-60.
ToDict(r) ==
    [position_size_usdt |-> ToJson(r.position_size_usdt),
     position_size_shares |-> ToJson(r.position_size_shares),
     is_custom |-> r.is_custom]

\* from_dict, lines 62-77: data.get(key, default).
FromDict(d) ==
    [position_size_usdt |->
        IF "position_size_usdt" \in DOMAIN d
        THEN FromJson(d.position_size_usdt) ELSE {DEFAULT_POSITION_SIZE_USDT},
     position_size_shares |->
        IF "position_size_shares" \in DOMAIN d
        THEN FromJson(d.position_size_shares) ELSE DEFAULT_POSITION_SIZE_SHARES,
     is_custom |-> IF "is_custom" \in DOMAIN d THEN d.is_custom ELSE FALSE]

NoFile == [state |-> "absent", data |-> {}]

\* save_settings, lines 107-121: the file is rewritten ("ok"), cannot be
\* opened ("fail") or is left truncated by a failed dump ("trunc"); the
\* exception is caught.
SaveOutcomes == {"ok", "fail", "trunc"}

Save(st, w) ==
    CASE w = "ok" -> [state |-> "ok", data |-> {ToDict(r) : r \in st}]
      [] w = "fail" -> file
      [] OTHER -> [state |-> "bad", data |-> {}]

\* load_settings, lines 87-105: no file or an unreadable one gives no entries.
Load(f) == IF f.state = "ok" THEN {FromDict(d) : d \in f.data} ELSE {}

\* update_settings, lines 142-212, with its two position size arguments.
UpdateSettings(usdt, shares, w) ==
    /\ events < MaxUpdates
    /\ events' = events + 1
    /\ store' = {SetShares(SetUsdt(GetSettings(store), usdt), shares)}
    /\ file' = Save(store', w)
    /\ UNCHANGED <<active, stats, last_mid, om_placing, exch, next_id, budget,
                   token_ok, call, thrVars, orders_placed, cancelling, placing,
                   g_placing, last_orderbook, auto_spread, lock, reader, sz, calc, ws>>

\* reset_to_defaults, lines 214-223.
ResetToDefaults(w) ==
    /\ events < MaxUpdates
    /\ events' = events + 1
    /\ IF store # {}
       THEN store' = {} /\ file' = Save(store', w)
       ELSE UNCHANGED <<store, file>>
    /\ UNCHANGED <<active, stats, last_mid, om_placing, exch, next_id, budget,
                   token_ok, call, thrVars, orders_placed, cancelling, placing,
                   g_placing, last_orderbook, auto_spread, lock, reader, sz, calc, ws>>

\* get_settings called on its own: the entry is created, nothing is saved.
ReadSettings ==
    /\ events < MaxUpdates
    /\ events' = events + 1
    /\ store' = {GetSettings(store)}
    /\ UNCHANGED <<active, stats, last_mid, om_placing, exch, next_id, budget,
                   token_ok, call, thrVars, orders_placed, cancelling, placing,
                   g_placing, last_orderbook, auto_spread, lock, reader, file, sz,
                   calc, ws>>

\* SettingsManager.__init__, lines 82-85: the program starts again.
LoadSettings ==
    /\ events < MaxUpdates
    /\ events' = events + 1
    /\ store' = Load(file)
    /\ UNCHANGED <<active, stats, last_mid, om_placing, exch, next_id, budget,
                   token_ok, call, thrVars, orders_placed, cancelling, placing,
                   g_placing, last_orderbook, auto_spread, lock, reader, file, sz,
                   calc, ws>>

SlotOrderId(o) == IF o = "yes" THEN 1 ELSE 2

\* The slots a finished placeFromQuote leaves for a book: one order per
\* admissible outcome, at the quote's price.
QuotedSlots(book) ==
    [o \in Outcomes |->
        IF CanPlace(book, o)
        THEN [order_id |-> SlotOrderId(o), price |-> QuotePrice(book.mid, o),
              shares |-> SharesFor(QuotePrice(book.mid, o))]
        ELSE Absent]

\* The program at rest: either just constructed, or enabled and quoting the
\* last book it saw, every order it placed resting on the exchange.
AtRest ==
    /\ \E book \in {NoBook} \cup {b \in Books : b.mid = 1 /\ b.can["yes"] = "ok"
                                                /\ b.can["no"] # "liq"} :
         /\ last_orderbook = book
         /\ last_mid = book.mid
         /\ orders_placed = (book # NoBook)
         /\ active = QuotedSlots(book)
         /\ exch = {[id |-> SlotOrderId(o), o |-> o] :
                        o \in {q \in Outcomes : CanPlace(book, q)}}
         /\ stats = [placed |-> Cardinality(exch), cancelled |-> 0]
    /\ om_placing = FALSE
    /\ next_id = 3
    /\ token_ok = TRUE
    /\ call = [c \in CallIds |-> IdleCall]
    /\ pfq = [k \in PfqIds |-> IdlePfq]
    /\ rc = [o \in Outcomes |-> IdleRc]
    /\ ca = "idle"
    /\ cancelling = [o \in Outcomes |-> FALSE]
    /\ placing = [o \in Outcomes |-> FALSE]
    /\ g_placing = FALSE
    /\ auto_spread = TRUE
    /\ events = 0
    /\ lock = "free"
    /\ reader = IdleReader
    /\ store = {}
    /\ file = NoFile
    /\ ws = IdleWs

\* At most MaxFaults abnormal events, of the kinds in SpecFaults.
Init ==
    /\ AtRest
    /\ budget = [n |-> MaxFaults, kinds |-> SpecFaults]
    /\ sz = IdleSz
    /\ calc = IdleCalc

Next ==
    \/ \E book \in Books, snap \in BOOLEAN : Update(book, snap)
    \/ ToggleOn
    \/ ToggleOff
    \/ CaJoin
    \/ \E k \in PfqIds : PfqEnter(k)
    \/ \E k \in PfqIds : PfqFlushJoin(k)
    \/ \E k \in PfqIds, o \in Outcomes : PfqCheck(k, o)
    \/ \E k \in PfqIds : PfqJoin(k)
    \/ \E k \in PfqIds : PfqExit(k)
    \/ \E o \in Outcomes : RcCancelDone(o)
    \/ \E o \in Outcomes, snap \in BOOLEAN : RcOld(o, snap)
    \/ \E o \in Outcomes, p \in {0} \cup Prices, l \in BOOLEAN : RcRecalc(o, p, l)
    \/ \E o \in Outcomes : RcPlaced(o)
    \/ \E c \in CallIds : CallStep(c)

Spec == Init /\ [][Next]_vars

\* ------------------------------------- callers of placeFromQuote, no GUI
\* A caller starts place_orders_from_preliminary with a quote of its own.
Invoke(book, valid) ==
    /\ events < MaxCalls
    /\ events' = events + 1
    /\ FreePfq # {}
    /\ pfq' = [pfq EXCEPT ![FirstFreePfq] = NewPfq(book, valid)]
    /\ UNCHANGED <<sideVars, active, stats, last_mid, om_placing, exch, next_id, budget,
                   token_ok, call, rc, ca, orders_placed, cancelling, placing,
                   g_placing, last_orderbook, auto_spread>>

InitPfq ==
    /\ Init
    /\ last_orderbook = NoBook

NextPfq ==
    \/ \E book \in Books, valid \in BOOLEAN : Invoke(book, valid)
    \/ \E k \in PfqIds : PfqEnter(k)
    \/ \E k \in PfqIds : PfqFlushJoin(k)
    \/ \E k \in PfqIds, o \in Outcomes : PfqCheck(k, o)
    \/ \E k \in PfqIds : PfqJoin(k)
    \/ \E k \in PfqIds : PfqExit(k)
    \/ \E o \in Outcomes : CallStep(PCall(o))

SpecPfq == InitPfq /\ [][NextPfq]_vars

\* ------------------------------------------- readers of the manager's state
InitRead ==
    /\ Init
    /\ last_orderbook = NoBook

NextRead ==
    \/ \E kind \in {"orders", "stats"} : ReadStart(kind)
    \/ ReadAcquire
    \/ ReadWait
    \/ ReadTimeout
    \/ ReadReturn
    \/ \E o \in Outcomes : CallerChanges(o)
    \/ ReadEnd
    \/ HolderTake
    \/ \E o \in Outcomes : HolderWrites(o)
    \/ HolderFree

SpecRead == InitRead /\ [][NextRead]_vars

\* ------------------------------------------ the settings manager alone
InitSet ==
    /\ Init
    /\ last_orderbook = NoBook

NextSet ==
    \/ \E usdt \in SizeArgs, shares \in SizeArgs, w \in SaveOutcomes :
            UpdateSettings(usdt, shares, w)
    \/ \E w \in SaveOutcomes : ResetToDefaults(w)
    \/ ReadSettings
    \/ LoadSettings

SpecSet == InitSet /\ [][NextSet]_vars

\* ------------------------------------------------- the sizing step alone
\* One run of the sizing step, for a price of the grid and a configured size.
InitSize ==
    /\ AtRest
    /\ last_orderbook = NoBook
    /\ budget = [n |-> 0, kinds |-> {}]
    /\ calc = IdleCalc
    /\ sz \in {[IdleSz EXCEPT !.pc = "start", !.kind = kind, !.size = size,
                              !.price = price] :
                  kind \in SizeKinds, size \in Sizes, price \in Ticks}

NextSize ==
    \/ SizeShares
    \/ SizeAdjust
    \/ \E up \in BOOLEAN : SizeRound(up)
    \/ SizeRepair
    \/ SizeReturn

\* The loop runs: the sizing step is straight-line code on one thread.
SpecSize == InitSize /\ [][NextSize]_vars /\ WF_vars(NextSize)

\* -------------------------------------------- fixed-spread quote alone
\* One call of calculate_limit_orders in fixed-spread mode, for a book whose
\* best bid lies below its best ask on the price grid of the market.
InitFixed ==
    /\ AtRest
    /\ last_orderbook = NoBook
    /\ budget = [n |-> 0, kinds |-> {}]
    /\ sz = IdleSz
    /\ \E precision \in Precisions, bps \in SpreadBps :
       \E bid \in Grid(precision), gap \in 1..MaxGap :
         /\ bid + gap * PriceStep(precision) \in Grid(precision)
         /\ calc = [pc |-> "fixed", precision |-> precision, bps |-> bps,
                    bid |-> bid, ask |-> bid + gap * PriceStep(precision),
                    buy |-> [o \in Outcomes |-> 0]]

NextFixed == \E upYes \in BOOLEAN, upNo \in BOOLEAN : QuoteFixed(upYes, upNo)

SpecFixed == InitFixed /\ [][NextFixed]_vars

\* --------------------------------------------- auto-spread quote alone
\* The books of SpecAuto: up to three bid levels below up to three ask
\* levels, on the price grid of the market.
BidPrices(precision) == {PriceStep(precision), 2 * PriceStep(precision), 500}
AskPrices(precision) == {510, UnitPrice - 2 * PriceStep(precision),
                         UnitPrice - PriceStep(precision)}
LevelShares == {1, 4}
Targets == {0, 1, 600, 3000}
MaxSpreads == {1, 60}

BooksOf(precision) ==
    {[bids |-> SortedDown(bp, bs), asks |-> SortedUp(ap, as)] :
        <<bp, bs, ap, as>> \in
            {q \in (SUBSET BidPrices(precision)) \X [BidPrices(precision) -> LevelShares]
                    \X (SUBSET AskPrices(precision)) \X [AskPrices(precision) -> LevelShares] :
                q[1] # {} /\ q[3] # {}}}

OwnOrders(precision) ==
    {[o \in Outcomes |-> {}],
     [o \in Outcomes |-> {[price |-> 2 * PriceStep(precision), shares |-> 1]}]}

\* One call of calculate_limit_orders in auto-spread mode.
InitAuto ==
    /\ AtRest
    /\ last_orderbook = NoBook
    /\ budget = [n |-> 0, kinds |-> {}]
    /\ sz = IdleSz
    /\ \E precision \in Precisions, target \in Targets, max_spread \in MaxSpreads :
       \E book \in BooksOf(precision), own \in OwnOrders(precision) :
         calc = [pc |-> "auto", precision |-> precision, book |-> book,
                 target |-> target, max_spread |-> max_spread, own |-> own,
                 min_spread2 |-> 4,
                 found |-> [o \in Outcomes |-> 0],
                 buy |-> [o \in Outcomes |-> 0],
                 enough |-> [o \in Outcomes |-> FALSE],
                 can |-> [o \in Outcomes |-> FALSE]]

NextAuto ==
    \E upYes \in BOOLEAN, upNo \in BOOLEAN, low \in [Outcomes -> BOOLEAN] :
        QuoteAuto(upYes, upNo, low)

SpecAuto == InitAuto /\ [][NextAuto]_vars

\* One call of calculate_liquidity_before_price, on any sorted book, a side
\* of which may be empty.
AnyBooksOf(precision) ==
    {[bids |-> SortedDown(bp, bs), asks |-> SortedUp(ap, as)] :
        <<bp, bs, ap, as>> \in
            (SUBSET BidPrices(precision)) \X [BidPrices(precision) -> LevelShares]
                \X (SUBSET AskPrices(precision)) \X [AskPrices(precision) -> LevelShares]}

Candidates(precision) == {PriceStep(precision), 2 * PriceStep(precision), 490, 500}

InitAhead ==
    /\ AtRest
    /\ last_orderbook = NoBook
    /\ budget = [n |-> 0, kinds |-> {}]
    /\ sz = IdleSz
    /\ \E precision \in Precisions, o \in Outcomes :
       \E book \in AnyBooksOf(precision), own \in OwnOrders(precision),
          our_price \in Candidates(precision) :
         calc = [pc |-> "ahead", precision |-> precision, book |-> book,
                 outcome |-> o, our_price |-> our_price, own |-> own[o],
                 result |-> 0]

LiquidityAhead ==
    /\ calc.pc = "ahead"
    /\ CalcStep([calc EXCEPT
            !.pc = "measured",
            !.result = LiquidityBefore(calc.book, calc.our_price, calc.outcome,
                                       calc.own)])

NextAhead == LiquidityAhead

SpecAhead == InitAhead /\ [][NextAhead]_vars

\* ------------------------------------------- one place_order / cancel_order
\* The manager in a state it can be in (each slot empty or holding an order
\* that rests or has been filled meanwhile, possibly an open order of the
\* market left from an earlier run), and one call of place_order or
\* cancel_order, met by any sequence of responses.
ForeignOrder == [id |-> 3, o |-> "yes"]
DirectCall == <<"r", 0, "yes">>

InitCall ==
    /\ token_ok \in BOOLEAN
    /\ \E A \in SUBSET Outcomes :
         /\ active = [o \in Outcomes |->
                IF o \in A
                THEN [order_id |-> SlotOrderId(o), price |-> 2, shares |-> SharesFor(2)]
                ELSE Absent]
         /\ stats = [placed |-> Cardinality(A), cancelled |-> 0]
         /\ exch \in SUBSET ({[id |-> SlotOrderId(o), o |-> o] : o \in A}
                                \cup {ForeignOrder})
    /\ last_mid = 0
    /\ om_placing = FALSE
    /\ next_id = 4
    /\ budget = [n |-> CallFaults, kinds |-> AllFaults]
    /\ \E rec \in {NewPlace(p, SharesFor(p)) : p \in {2, 3}} \cup {NewCancel} :
         call = [c \in CallIds |-> IF c = DirectCall THEN rec ELSE IdleCall]
    /\ pfq = [k \in PfqIds |-> IdlePfq]
    /\ rc = [o \in Outcomes |-> IdleRc]
    /\ ca = "idle"
    /\ orders_placed = FALSE
    /\ cancelling = [o \in Outcomes |-> FALSE]
    /\ placing = [o \in Outcomes |-> FALSE]
    /\ g_placing = FALSE
    /\ last_orderbook = NoBook
    /\ auto_spread = FALSE
    /\ events = 0
    /\ lock = "free"
    /\ reader = IdleReader
    /\ store = {}
    /\ file = NoFile
    /\ ws = IdleWs
    /\ calc = IdleCalc
    /\ sz = IdleSz

NextCall == CallStep(DirectCall)

SpecCall == InitCall /\ [][NextCall]_vars /\ WF_vars(NextCall)

\* ------------------------------------------------------------- properties
PlaceCalls(o) == {c \in CallIds : OutcomeOf(c) = o /\ call[c].op = "place"}
CancelCalls(o) == {c \in CallIds : OutcomeOf(c) = o /\ call[c].op = "cancel"}

\* The acceptance of order x is still on its way to the call that placed it.
Pending(x) ==
    \E c \in CallIds : call[c].pc = "resp" /\ call[c].resp = "ok" /\ call[c].rid = x.id

\* C1: in every reachable state at most one accepted, not cancelled order
\* rests for each outcome, and every resting order whose acceptance the
\* program has processed is the one recorded in its outcome's slot.
C1_OneRestingOrderRecorded ==
    /\ \A o \in Outcomes : Cardinality({x \in exch : x.o = o}) <= 1
    /\ \A x \in exch : ~Pending(x) => active[x.o].order_id = x.id

\* C2: no two place() calls for one outcome are both unfinished with a
\* placement request issued: the later of two overlapping calls would have
\* issued its request while the earlier had not completed.
C2_SecondPlaceIssuesNoRequest ==
    \A o \in Outcomes : \A c, d \in PlaceCalls(o) :
        (c # d /\ call[c].pc # "done" /\ call[d].pc # "done")
            => ~(call[c].nreq >= 1 /\ call[d].nreq >= 1)

\* C3: at any time at most one cancel request is in flight per outcome,
\* whichever of the reactive cancel, the re-pricing cancel, the stale-price
\* flush and the cancel-all issued it.
C3_OneCancelInFlight ==
    \A o \in Outcomes :
        Cardinality({c \in CancelCalls(o) : call[c].pc = "resp"}) <= 1

Executing(k) == pfq[k].pc \in {"flush", "place"}

C4_PlacesOnlyIfAdmissibleAndAbsent ==
    \A o \in Outcomes :
        (call[PCall(o)].op # "place" /\ call'[PCall(o)].op = "place")
            => \E k \in PfqIds : /\ pfq[k].pc = "place"
                                 /\ pfq[k].can[o]
                                 /\ active[o] = Absent

C4_SkipsCountAsSuccess ==
    \A k \in PfqIds :
        (pfq[k].pc = "exit" /\ \A o \in Outcomes : pfq[k].sub[o] = "skipped")
            => pfq[k].result = "ok"

C4_NoDuplicatePlacement ==
    stats.cancelled = 0
        => stats.placed = Cardinality({o \in Outcomes : active[o] # Absent})

\* C4: placeFromQuote starts a placement for an outcome only when that
\* outcome's canPlace is true and its slot is empty at the check; a call that
\* skips every outcome returns success; and as long as nothing was cancelled
\* the placed counter equals the number of active slots, however many calls
\* were made (one order, placed = 1).
C4_PlaceFromQuoteIdempotent ==
    /\ [][C4_PlacesOnlyIfAdmissibleAndAbsent]_vars
    /\ [](C4_SkipsCountAsSuccess /\ C4_NoDuplicatePlacement)

\* Two calls were made with an admissible quote for an outcome; the later one
\* found the slot taken, skipped it and returned success; placed is 1.
C4_Witness ==
    /\ events >= 2
    /\ stats.placed = 1 /\ stats.cancelled = 0
    /\ \E k \in PfqIds, o \in Outcomes :
         /\ pfq[k].pc = "exit" /\ pfq[k].result = "ok"
         /\ pfq[k].can[o] /\ pfq[k].sub[o] = "skipped"
         /\ active[o] # Absent

C5_FlagMeansOneExecuting ==
    /\ om_placing <=> \E k \in PfqIds : Executing(k)
    /\ Cardinality({k \in PfqIds : Executing(k)}) <= 1

C5_OverlapIsNoOp ==
    \A k \in PfqIds :
        (pfq[k].pc = "start" /\ om_placing /\ pfq'[k] # pfq[k])
            => /\ pfq'[k].pc = "exit" /\ pfq'[k].result = "ok"
               /\ UNCHANGED <<call, active, stats, exch, last_mid, om_placing>>

C5_FlagClearedAtEnd ==
    \A k \in PfqIds :
        (Executing(k) /\ pfq'[k].pc = "exit") => ~om_placing'

\* C5: a placeFromQuote call that starts while another is executing does no
\* cancel and no placement and returns success; placing_orders is true
\* exactly while one call executes, and false once that call has ended,
\* whether it returned success or failure.
C5_OverlappingCallsCoalesce ==
    /\ []C5_FlagMeansOneExecuting
    /\ [][C5_OverlapIsNoOp /\ C5_FlagClearedAtEnd]_vars

\* A call returned success at once, having touched nothing, while another
\* call is still executing with the flag set.
C5_Witness ==
    \E k, j \in PfqIds :
        /\ pfq[k].pc = "exit" /\ pfq[k].result = "ok"
        /\ \A o \in Outcomes : pfq[k].sub[o] = "-"
        /\ Executing(j) /\ om_placing

C6_Accepting(c) ==
    call[c].pc = "resp" /\ call[c].resp = "ok" /\ call'[c].pc = "done"

C6_Step ==
    \A c \in CallIds :
        (call[c].op = "place" /\ call'[c].op = "place" /\ call'[c] # call[c])
            => IF C6_Accepting(c)
               THEN /\ active'[OutcomeOf(c)] = OrderInfo(call[c])
                    /\ stats'.placed = stats.placed + 1
                    /\ call'[c].result = "ok"
               ELSE /\ active'[OutcomeOf(c)] = active[OutcomeOf(c)]
                    /\ stats'.placed = stats.placed
                    /\ call'[c].pc = "done" => call'[c].result = "fail"

\* C6: a step of place() changes the outcome's slot and the placed counter
\* only when it processes an acceptance (the slot then holds the new order
\* and placed grows by 1); every other step, every failure included, leaves
\* both unchanged and ends, if it ends the call, without an order.
C6_SlotChangesOnlyOnAcceptance == [][C6_Step]_vars

ReconStages == {"list", "listresp", "bulk", "bulkresp"}

\* C7: one place_order sends at most 3 requests to the place endpoint and one
\* cancel_order at most 3 to the cancel endpoint, whatever the responses, and
\* the call ends with a result.
C7_RequestsBounded == \A c \in CallIds : call[c].nreq <= max_attempts

C7_AtMostThreeRequestsAndTerminates ==
    /\ []C7_RequestsBounded
    /\ <>(call[DirectCall].pc = "done" /\ call[DirectCall].result \in {"ok", "fail"})

\* C7 witness: a place_order that reconciled, used all three requests and ended.
C7_Witness ==
    \E c \in CallIds :
        /\ call[c].op = "place" /\ call[c].pc = "done"
        /\ call[c].nreq = max_attempts /\ call[c].nrecon = 1

\* C8: on 401 Invalid JWT the token is refreshed once and the request retried
\* once, outside the budget of 3 attempts: a successful refresh is always
\* followed by a retry, and retries are exhausted only after 3 requests that
\* were not refresh retries.
C8_RefreshRetryOutsideBudget ==
    \A c \in CallIds :
        /\ call[c].nrefresh <= 1
        /\ (call[c].pc = "done" /\ call[c].resp = "401jwt")
              => call[c].refreshed = "fail"
        /\ (call[c].pc = "done" /\ call[c].resp \in {"net", "5xx", "429"})
              => call[c].nreq - call[c].nrefresh >= max_attempts

C9_Inv ==
    \A c \in CallIds :
        /\ call[c].nrecon <= 1
        /\ call[c].pc \in ReconStages
              => call[c].attempt = 1 /\ call[c].nreq = 1 /\ call[c].nrecon = 1
        /\ (call[c].pc = "done" /\ call[c].resp = "400ic")
              => call[c].attempt > 1 /\ call[c].result = "fail"

C9_Step ==
    \A c \in CallIds :
        call'[c] # call[c] =>
            /\ (call[c].pc = "resp" /\ call[c].resp = "400ic") =>
                  IF call[c].attempt = 1
                  THEN call'[c].pc = "list"
                  ELSE call'[c].pc = "done" /\ call'[c].nrecon = call[c].nrecon
            /\ (call[c].pc = "listresp" /\ call[c].resp = "ok" /\ call[c].ids # {})
                  => call'[c].pc = "bulk"
            /\ (call[c].pc = "bulk" /\ call'[c].resp = "ok")
                  => \A x \in exch' : x.id \notin call[c].ids
            /\ call[c].pc = "bulkresp"
                  => call'[c].pc = "req" /\ call'[c].attempt = 2

C10_FailedReconciliationFailsCall ==
    \A c \in CallIds :
        call[c].recon \in {"none", "cancel_failed"}
            => call[c].pc = "done" /\ call[c].result = "fail" /\ call[c].nreq = 1

C11_Step ==
    \A c \in CallIds :
        (/\ call[c].op = "cancel" /\ call[c].pc = "begin"
         /\ active[OutcomeOf(c)] = Absent
         /\ call'[c] # call[c])
            => /\ call'[c].pc = "done" /\ call'[c].result = "fail"
               /\ call'[c].nreq = 0
               /\ UNCHANGED <<active, stats, exch>>

\* C11: cancel(outcome) on an empty slot ends at once without an order
\* cancelled, having sent no request, and leaves both slots, both counters
\* and the exchange as they were.
C11_CancelOnAbsentSlotIsNoOp == [][C11_Step]_vars

\* A cancel on an empty slot has returned.
C11_Witness ==
    /\ active[OutcomeOf(DirectCall)] = Absent
    /\ call[DirectCall].op = "cancel" /\ call[DirectCall].pc = "done"
    /\ call[DirectCall].nreq = 0 /\ call[DirectCall].result = "fail"

C12_Step ==
    \A c \in CallIds :
        (call[c].op = "cancel" /\ call'[c].op = "cancel" /\ call'[c] # call[c])
            => IF call[c].pc = "resp" /\ call[c].resp \in {"404", "ok"}
               THEN /\ call'[c].pc = "done" /\ call'[c].result = "ok"
                    /\ call'[c].nreq = call[c].nreq
                    /\ active'[OutcomeOf(c)] = Absent
                    /\ stats'.cancelled = stats.cancelled + 1
               ELSE /\ active'[OutcomeOf(c)] = active[OutcomeOf(c)]
                    /\ stats'.cancelled = stats.cancelled
                    /\ call'[c].pc = "done" => call'[c].result = "fail"

\* C12: a cancel that is answered 404 (or a success body) ends at once with
\* success, the slot empty and cancelled one higher; every other step of a
\* cancel, every failing end included, leaves the slot and the cancelled
\* counter as they were.
C12_NotFoundIsSuccess == [][C12_Step]_vars

\* A cancel of an order that no longer rested was answered 404 and succeeded.
C12_Witness ==
    /\ call[DirectCall].op = "cancel" /\ call[DirectCall].pc = "done"
    /\ call[DirectCall].resp = "404" /\ call[DirectCall].result = "ok"
    /\ active[OutcomeOf(DirectCall)] = Absent /\ stats.cancelled = 1

C13_Step ==
    /\ (ca # "run" /\ ca' = "run")
          => \A o \in Outcomes : call'[ACall(o)] = NewCancel
    /\ (ca = "run" /\ ca' # "run")
          => /\ \A o \in Outcomes : call[ACall(o)].pc = "done"
             /\ ca' = "ok" <=> \A o \in Outcomes : call[ACall(o)].result = "ok"
             /\ ca' \in {"ok", "fail"}

\* C13: cancel-all starts a cancel for each outcome, both exist for as long
\* as it runs, it returns only when both have ended, and it returns success
\* exactly when both did.
C13_CancelAllIsConjunction ==
    /\ [][C13_Step]_vars
    /\ [](ca = "run" => \A o \in Outcomes : call[ACall(o)].op = "cancel")

\* Cancel-all returned failure although one of its cancels had succeeded.
C13_Witness == ca = "fail" /\ stats.cancelled = 1 /\ ~orders_placed

C14_Inv ==
    /\ reader.waited <= LockTimeout
    /\ reader.pc \in {"idle", "done", "changed"} => lock # "reader"
    /\ reader.pc \in {"done", "changed"} => reader.out \in {"copy", "timeout"}
    /\ reader.out = "timeout" => reader.ret = NoReturn

C14_Step ==
    /\ (reader.pc # "done" /\ reader'.pc = "done" /\ reader'.out = "copy")
          => /\ lock = "reader"
             /\ reader.kind = "orders" => reader'.ret.orders = active
             /\ reader.kind = "stats" => reader'.ret.stats = stats
    /\ (reader.pc # "done" /\ reader'.pc = "done" /\ reader'.out = "timeout")
          => lock = "holder" /\ reader.waited = LockTimeout
    /\ (reader.pc # "changed" /\ reader'.pc = "changed")
          => UNCHANGED <<active, stats>>

\* C14: a read with a timeout never waits for the lock longer than the
\* timeout; it ends either with the state as it was while the reader held the
\* lock or, the lock being held by another thread for the whole timeout, with
\* a lock-timeout and no value; once it has ended the reader does not hold
\* the lock; and what the caller then does to the value it was given leaves
\* the slots and the counters as they were.
C14_ReadsCopyOrTimeOut == []C14_Inv /\ [][C14_Step]_vars

\* The caller changed the copy it was given; the manager still has the order.
C14_Witness ==
    /\ reader.pc = "changed" /\ reader.kind = "orders"
    /\ \E o \in Outcomes : reader.ret.orders[o] = Absent /\ active[o] # Absent

\* C15: a book update whose read of the active orders met a busy lock
\* starts no placement, no cancel and no re-pricing and sets no guard.
C15_LockTimeoutSkipsCycle ==
    [][(events' # events /\ budget' # budget)
          => UNCHANGED <<pfq, rc, call, cancelling, placing, g_placing>>]_vars

C16_Step ==
    (~orders_placed /\ ~orders_placed' /\ events' # events)
        => UNCHANGED <<pfq, rc, ca, call, cancelling, placing, g_placing,
                       om_placing, active, stats, exch>>

\* C16: while quoting is not enabled, a book update stores the book and
\* nothing else: no thread is started, no call made, no guard set, no slot,
\* counter or resting order changed.
C16_DisabledUpdateOnlyStores == [][C16_Step]_vars

\* A book that admits quotes has been stored while quoting is disabled, and
\* nothing runs.
C16_Witness ==
    /\ ~orders_placed /\ events >= 1
    /\ last_orderbook # NoBook /\ \E o \in Outcomes : CanPlace(last_orderbook, o)
    /\ \A k \in PfqIds : pfq[k].pc = "idle"
    /\ \A c \in CallIds : call[c].op = "idle"
    /\ ca = "idle"

\* ------------------------------------------------ guards are released
\* Every step of a worker thread or of a call it runs: all of Next but the
\* controller's own handlers (Update, ToggleOn, ToggleOff).
Tasks ==
    \/ CaJoin
    \/ \E k \in PfqIds : PfqEnter(k)
    \/ \E k \in PfqIds : PfqFlushJoin(k)
    \/ \E k \in PfqIds, o \in Outcomes : PfqCheck(k, o)
    \/ \E k \in PfqIds : PfqJoin(k)
    \/ \E k \in PfqIds : PfqExit(k)
    \/ \E o \in Outcomes : RcCancelDone(o)
    \/ \E o \in Outcomes, snap \in BOOLEAN : RcOld(o, snap)
    \/ \E o \in Outcomes, p \in {0} \cup Prices, l \in BOOLEAN : RcRecalc(o, p, l)
    \/ \E o \in Outcomes : RcPlaced(o)
    \/ \E c \in CallIds : CallStep(c)

\* The program with its threads scheduled: a started thread keeps running
\* (every sleep and every request of a call is finite).
InitLive ==
    /\ AtRest
    /\ budget = [n |-> LiveFaults, kinds |-> AllFaults]
    /\ sz = IdleSz
    /\ calc = IdleCalc

NextLive == Next /\ events' <= LiveEvents

SpecLive == InitLive /\ [][NextLive]_vars /\ WF_vars(Tasks)

\* C17: every in-flight guard the controller sets before it dispatches a
\* place, cancel or re-pricing task (placing and cancelling of each outcome,
\* and the market-wide placing guard) is cleared again, whatever the trading
\* API answers; none stays set forever.
C17_GuardsEventuallyCleared ==
    /\ \A o \in Outcomes : cancelling[o] ~> ~cancelling[o]
    /\ \A o \in Outcomes : placing[o] ~> ~placing[o]
    /\ g_placing ~> ~g_placing

\* A cancel task that failed is about to end with its guard still set.
C17_Witness ==
    \E o \in Outcomes :
        /\ cancelling[o]
        /\ rc[o].kind = "cancel"
        /\ call[RCall(o)].pc = "done"
        /\ call[RCall(o)].result = "fail"

\* C18: processing a book update executes no request of the trading API, no
\* retry delay and no settle delay on the delivering thread: the step changes
\* neither the manager's state nor the exchange, advances no call in flight,
\* and every call, re-pricing or placement it starts is left at its first
\* step for a thread of its own; and the next update can be processed
\* whatever the tasks in flight are doing.
C18_Step ==
    (events' # events /\ orders_placed' = orders_placed) =>
        /\ UNCHANGED <<active, stats, exch, next_id, last_mid, om_placing, token_ok, ca>>
        /\ \A c \in CallIds :
              \/ call'[c] = call[c]
              \/ call'[c].pc = "begin" /\ call'[c].nreq = 0 /\ call'[c].delay = 0
        /\ \A o \in Outcomes :
              \/ rc'[o] = rc[o]
              \/ rc'[o].pc = "start"
              \/ rc'[o].pc = "cancel" /\ call'[RCall(o)].pc = "begin"
        /\ \A k \in PfqIds : pfq'[k] = pfq[k] \/ pfq'[k].pc = "start"

C18_UpdateOnlyDispatches ==
    /\ [][C18_Step]_vars
    /\ [](events < MaxEvents => ENABLED (\E book \in Books : Update(book, TRUE)))

\* A placement waits to start and a cancel dispatched for another book sits
\* in its retry delay: an update was processed while a task was outstanding.
C18_Witness ==
    \E k \in PfqIds :
        /\ pfq[k].pc = "start" /\ pfq[k].can["yes"] /\ g_placing
        /\ rc["yes"].kind = "cancel"
        /\ call[RCall("yes")].pc = "req" /\ call[RCall("yes")].delay > 0

C20_Returned ==
    sz.pc = "done" =>
        /\ sz.tenths * sz.price >= MIN_ORDER_VALUE_USD
        /\ sz.tenths >= sz.rounded

C20_Step == sz.pc = "repair" => sz'.tenths >= sz.tenths

C20_SizingReachesMinimum ==
    /\ []C20_Returned
    /\ [][C20_Step]_vars
    /\ <>(sz.pc = "done")

\* Rounding dropped the order below the minimum and the repair raised it.
C20_Witness ==
    /\ sz.pc = "done"
    /\ sz.tenths > sz.rounded
    /\ sz.rounded * sz.price < MIN_ORDER_VALUE_USD

\* C21: in fixed-spread mode, for every book with bids and asks, the buy
\* price returned for each outcome, after rounding and clamping, is not above
\* the mid price of that outcome.
C21_BuyNeverAboveMid ==
    calc.pc = "done" =>
        \A o \in Outcomes : 2 * calc.buy[o] <= MidTwice(calc.bid, calc.ask, o)

\* The liquidity of all levels of the side of outcome o.
RECURSIVE SumLevels(_, _)
SumLevels(levels, i) ==
    IF i > Len(levels) THEN 0
    ELSE levels[i].price * levels[i].shares + SumLevels(levels, i + 1)

Exhausted(o) ==
    SumLevels(SideLevels(calc.book, o), 1) < TargetOr(calc.target)

WorstLevel(o) ==
    SideLevels(calc.book, o)[Len(SideLevels(calc.book, o))].price

C23_Moved(k) == last_mid # 0 /\ last_mid # pfq[k].mid

C23_Step ==
    \A k \in PfqIds :
        /\ (pfq[k].pc = "start" /\ pfq'[k].pc = "flush") =>
                /\ C23_Moved(k)
                /\ \A o \in Outcomes : call'[PCall(o)] = NewCancel
        /\ (pfq[k].pc = "start" /\ pfq'[k].pc = "place") =>
                /\ ~C23_Moved(k)
                /\ UNCHANGED call
        /\ pfq[k].pc = "flush" =>
                \A o \in Outcomes : call'[PCall(o)].op # "place"
        /\ (pfq[k].pc = "flush" /\ pfq'[k].pc # "flush") =>
                \A o \in Outcomes : call[PCall(o)].pc = "done"
        /\ (pfq[k].pc = "place" /\ pfq'[k].pc = "place") =>
                \A o \in Outcomes : call'[PCall(o)].op # "cancel"

C23_FlushBeforePlacement == [][C23_Step]_vars

\* A call whose flush cancelled an order is placing at the new mid.
C23_Witness ==
    \E k \in PfqIds :
        /\ pfq[k].pc = "place" /\ pfq[k].mid = last_mid
        /\ stats.cancelled > 0
        /\ \E o \in Outcomes : call[PCall(o)].op = "place" /\ call[PCall(o)].pc = "resp"

\* C24: in place_order and cancel_order a network error or a 5xx response is
\* retried after 1 second and a 429 response after 30 seconds (first attempt)
\* or 65 seconds (second attempt), in both cases only while attempts remain
\* out of 3; any other 4xx response (not 401 invalid token, not 400
\* insufficient collateral, not 404 on cancel) fails the call at once.
C24_Retried(c, delay) ==
    IF call[c].attempt < max_attempts
    THEN /\ call'[c].pc = "req"
         /\ call'[c].attempt = call[c].attempt + 1
         /\ call'[c].delay = delay
         /\ call'[c].nreq = call[c].nreq
    ELSE call'[c].pc = "done" /\ call'[c].result = "fail"

C24_Step ==
    \A c \in CallIds :
        (call[c].pc = "resp" /\ call'[c] # call[c]) =>
            /\ call[c].resp \in {"net", "5xx"} => C24_Retried(c, DelayShort)
            /\ call[c].resp = "429" =>
                  C24_Retried(c, IF call[c].attempt = 1 THEN Delay429First
                                 ELSE Delay429Second)
            /\ call[c].resp = "4xx" =>
                  /\ call'[c].pc = "done" /\ call'[c].result = "fail"
                  /\ call'[c].attempt = call[c].attempt

C24_RetrySchedule == [][C24_Step]_vars

\* A call about to send its third request 65 seconds after a second 429.
C24_Witness ==
    /\ call[DirectCall].pc = "req"
    /\ call[DirectCall].attempt = max_attempts
    /\ call[DirectCall].resp = "429"
    /\ call[DirectCall].delay = Delay429Second

\* ------------------------------------ the controller on every kind of book
\* Every book the calculator can report: either outcome admissible, short of
\* liquidity, or short of spread only.
AllBooks == [mid : Mids, can : [Outcomes -> CanVals]]

\* Quoting is enabled, with or without auto-spread, on a book that admits the
\* Yes order only, and that order rests; requests may fail, the manager's
\* lock is never busy.
ReactFaultKinds == {<<"place", "400ic">>, <<"cancel", "net">>}

InitReact ==
    /\ \E book \in {b \in AllBooks : b.mid = 1 /\ b.can["yes"] = "ok"
                                                  /\ b.can["no"] = "spread"} :
         /\ last_orderbook = book
         /\ last_mid = book.mid
         /\ active = QuotedSlots(book)
         /\ exch = {[id |-> SlotOrderId(o), o |-> o] :
                        o \in {q \in Outcomes : CanPlace(book, q)}}
         /\ stats = [placed |-> Cardinality(exch), cancelled |-> 0]
    /\ orders_placed = TRUE
    /\ auto_spread \in BOOLEAN
    /\ om_placing = FALSE
    /\ next_id = 3
    /\ token_ok = TRUE
    /\ budget = [n |-> ReactFaults, kinds |-> ReactFaultKinds]
    /\ call = [c \in CallIds |-> IdleCall]
    /\ pfq = [k \in PfqIds |-> IdlePfq]
    /\ rc = [o \in Outcomes |-> IdleRc]
    /\ ca = "idle"
    /\ cancelling = [o \in Outcomes |-> FALSE]
    /\ placing = [o \in Outcomes |-> FALSE]
    /\ g_placing = FALSE
    /\ events = 0
    /\ lock = "free"
    /\ reader = IdleReader
    /\ store = {}
    /\ file = NoFile
    /\ ws = IdleWs
    /\ sz = IdleSz
    /\ calc = IdleCalc

NextReact ==
    \/ \E book \in AllBooks, snap \in BOOLEAN : Update(book, snap)
    \/ \E k \in PfqIds : PfqEnter(k)
    \/ \E k \in PfqIds : PfqFlushJoin(k)
    \/ \E k \in PfqIds, o \in Outcomes : PfqCheck(k, o)
    \/ \E k \in PfqIds : PfqJoin(k)
    \/ \E k \in PfqIds : PfqExit(k)
    \/ \E o \in Outcomes : RcCancelDone(o)
    \/ \E o \in Outcomes, snap \in BOOLEAN : RcOld(o, snap)
    \/ \E o \in Outcomes, p \in {0} \cup Prices, l \in BOOLEAN : RcRecalc(o, p, l)
    \/ \E o \in Outcomes : RcPlaced(o)
    \/ \E c \in CallIds : CallStep(c)

SpecReact == InitReact /\ [][NextReact]_vars

\* A book update handled while quoting is enabled.
ReactUpdate == events' = events + 1 /\ orders_placed /\ orders_placed'

\* What an update triggers for an outcome: a run of the re-pricing protocol,
\* a plain cancel, or neither.
RepriceTriggered(o) == rc'[o] # rc[o] /\ rc'[o].kind = "reprice" /\ rc'[o].pc = "start"
CancelTriggered(o) ==
    /\ rc'[o] # rc[o] /\ rc'[o].kind = "cancel"
    /\ call[RCall(o)].op = "idle" /\ call'[RCall(o)].op = "cancel"

C25_Qualifies(o) ==
    /\ active[o] # Absent
    /\ ~CanPlace(last_orderbook', o)
    /\ ~cancelling[o]

\* The statement of C25 as written: with auto-spread enabled every qualifying
\* outcome is re-priced.
C25_AsWritten ==
    [][ReactUpdate => \A o \in Outcomes :
          C25_Qualifies(o) =>
              IF auto_spread THEN RepriceTriggered(o) /\ ~CancelTriggered(o)
                             ELSE CancelTriggered(o) /\ ~RepriceTriggered(o)]_vars

\* C25: on a book update with quoting enabled, for each outcome whose order
\* is active, whose quote is not admissible and which has no cancel in flight,
\* exactly one task is triggered and the outcome's cancelling guard is set: the
\* re-pricing protocol if auto-spread is enabled and the quote is short of
\* liquidity, a plain cancel otherwise (auto-spread disabled, or the quote is
\* short of spread only). While the outcome's cancelling guard is set neither
\* is triggered.
C25_Step ==
    ReactUpdate => \A o \in Outcomes :
        /\ C25_Qualifies(o) =>
              /\ cancelling'[o]
              /\ IF auto_spread /\ last_orderbook'.can[o] = "liq"
                 THEN RepriceTriggered(o) /\ ~CancelTriggered(o)
                 ELSE CancelTriggered(o) /\ ~RepriceTriggered(o)
        /\ cancelling[o] => ~RepriceTriggered(o) /\ ~CancelTriggered(o)

C25_ExactlyOneReaction == [][C25_Step]_vars

\* Auto-spread is enabled and a plain cancel runs for an order whose quote is
\* short of spread, next to a re-pricing run of the other outcome.
C25_Witness ==
    /\ auto_spread /\ orders_placed
    /\ \E o \in Outcomes :
         /\ rc[o].kind = "cancel" /\ last_orderbook.can[o] = "spread"
         /\ \E q \in Outcomes \ {o} : rc[q].kind = "reprice"

C26_Qualifies(o) ==
    /\ active[o] = Absent
    /\ CanPlace(last_orderbook', o)
    /\ ~cancelling[o] /\ ~placing[o]

\* A placement task starts on the updated book and the outcome's placing guard
\* is set.
PlacementTriggered(o) ==
    /\ placing'[o] /\ g_placing'
    /\ \E k \in PfqIds :
         /\ pfq[k].pc = "idle" /\ pfq'[k].pc = "start"
         /\ pfq'[k].mid = last_orderbook'.mid
         /\ pfq'[k].can[o]

\* The statement of C26 as written: a qualifying outcome has a placement
\* triggered in the same update whatever the other outcome is doing.
C26_AsWritten ==
    [][ReactUpdate => \A o \in Outcomes :
          C26_Qualifies(o) => PlacementTriggered(o)]_vars

\* C26: on a book update with quoting enabled, an outcome whose slot is absent,
\* whose quote is admissible and which has neither a placement nor a
\* cancellation in flight has a placement triggered in that update if the
\* market-wide placing guard is clear, whether the other outcome is active,
\* absent or being cancelled; while the market-wide guard is set (a placement
\* task of the market, started for the other outcome, has not ended) the
\* update starts no placement task and sets no placing guard. An outcome's
\* placing guard is set by an update only if the outcome qualifies.
C26_Step ==
    ReactUpdate => \A o \in Outcomes :
        /\ C26_Qualifies(o) =>
              IF g_placing
              THEN pfq' = pfq /\ placing' = placing
              ELSE PlacementTriggered(o)
        /\ (placing'[o] /\ ~placing[o]) => C26_Qualifies(o) /\ ~g_placing

C26_PlacementPerOutcome == [][C26_Step]_vars

\* A placement task was started for an outcome alone while the other outcome's
\* order is being cancelled.
C26_Witness ==
    \E o \in Outcomes, k \in PfqIds :
        /\ placing[o] /\ g_placing /\ pfq[k].pc = "start" /\ pfq[k].can[o]
        /\ \A q \in Outcomes \ {o} :
             ~placing[q] /\ cancelling[q] /\ active[q] # Absent

\* A re-pricing run issues its placement.
RepricePlaces(o) ==
    /\ rc[o].kind = "reprice" /\ rc[o].pc = "cancel" /\ rc'[o].pc = "place"
    /\ call'[RCall(o)].op = "place"

\* C27: the re-pricing protocol places no order at the floor price, and none
\* at the price of the order it has just cancelled.
C27_Step ==
    \A o \in Outcomes :
        RepricePlaces(o) =>
            /\ call'[RCall(o)].price > FloorPrice
            /\ call'[RCall(o)].price # call[RCall(o)].price

C27_NoPlacementAtFloorOrOldPrice == [][C27_Step]_vars

\* The part that holds: no placement at the floor, and none at the price the
\* run read before it cancelled, if it could read one.
C27_NotAtPriceRead ==
    [][\A o \in Outcomes :
          RepricePlaces(o) =>
              /\ call'[RCall(o)].price > FloorPrice
              /\ rc[o].old # 0 => call'[RCall(o)].price # rc[o].old]_vars

\* C28: a re-pricing run issues its placement request only after its cancel
\* of the stale order has returned success, and for a price recomputed from
\* the book stored last; when the cancel fails the run ends and issues no
\* placement.
C28_Step ==
    \A o \in Outcomes :
        /\ (call'[RCall(o)].op = "place" /\ call[RCall(o)].op # "place") =>
              /\ RepricePlaces(o)
              /\ call[RCall(o)].op = "cancel" /\ call[RCall(o)].pc = "done"
              /\ call[RCall(o)].result = "ok"
              /\ rc'[o].book = last_orderbook
        /\ (/\ rc[o].kind = "reprice" /\ rc[o].pc = "cancel"
            /\ call[RCall(o)].pc = "done" /\ call[RCall(o)].result # "ok"
            /\ rc'[o] # rc[o]) =>
              rc'[o] = IdleRc /\ call'[RCall(o)] = IdleCall

C28_PlacesAfterCancelAndRecompute == [][C28_Step]_vars

\* A run places on a book that arrived after the one that started it.
C28_Witness ==
    \E o \in Outcomes :
        /\ rc[o].kind = "reprice" /\ rc[o].pc = "place"
        /\ call[RCall(o)].op = "place" /\ call[RCall(o)].nreq > 0
        /\ rc[o].book = last_orderbook /\ last_orderbook.can[o] # "liq"

\* A re-pricing run ends without having placed: its cancel failed, the
\* recalculation stopped it, or its placement was rejected.
RepriceFails(o) ==
    /\ rc[o].kind = "reprice" /\ rc'[o] = IdleRc
    /\ ~(rc[o].pc = "place" /\ call[RCall(o)].result = "ok")

C29_Step ==
    \A o \in Outcomes :
        /\ (rc[o].kind = "reprice" /\ rc[o].pc # "start" /\ rc'[o] # rc[o]) =>
              \/ RepricePlaces(o)
              \/ rc'[o] = IdleRc
        /\ RepriceFails(o) =>
              /\ ~cancelling'[o]
              /\ active' = active
              /\ call'[RCall(o)] = IdleCall
        /\ (rc'[o].kind = "reprice" /\ rc'[o].pc = "start" /\ rc'[o] # rc[o]) =>
              /\ ReactUpdate
              /\ active[o] # Absent
              /\ ~CanPlace(last_orderbook', o)
              /\ ~cancelling[o]

RECURSIVE SumAbove(_, _, _)
SumAbove(levels, i, our_price) ==
    IF i > Len(levels) THEN 0
    ELSE (IF levels[i].price > our_price THEN levels[i].price * levels[i].shares
          ELSE 0) + SumAbove(levels, i + 1, our_price)

\* The levels of an outcome at exact prices: the bids, or the asks at one
\* minus their price.
ExactLevels(book, o) ==
    IF o = "yes" THEN book.bids
    ELSE [i \in 1..Len(book.asks) |->
            [price |-> UnitPrice - book.asks[i].price, shares |-> book.asks[i].shares]]

OwnTaken(own, our_price) ==
    IF \E x \in own : x.price > our_price
    THEN LET x == CHOOSE y \in own : TRUE IN x.price * x.shares
    ELSE 0

FilteredSum(book, our_price, o, own) ==
    LET total == SumAbove(ExactLevels(book, o), 1, our_price) - OwnTaken(own, our_price)
    IN IF total > 0 THEN total ELSE 0

\* C30: for every sorted book and candidate price, the liquidity ahead is the
\* sum of price times size over the bid levels (Yes) or over the ask levels at
\* one minus their price (No) that are strictly above the candidate, less the
\* own order if that is strictly above the candidate, and never negative; a
\* level at the candidate price adds nothing.
C30_LiquidityAheadIsFilteredSum ==
    calc.pc = "measured" =>
        calc.result = FilteredSum(calc.book, calc.our_price, calc.outcome, calc.own)

\* The part that holds: on a book with both sides, and unless a No level sits
\* at the candidate price with an ask price in FloatOver.
C30_ExceptInexactLevel ==
    (/\ calc.pc = "measured"
     /\ calc.book.bids # <<>> /\ calc.book.asks # <<>>
     /\ ~(/\ calc.outcome = "no"
          /\ \E i \in 1..Len(calc.book.asks) :
                /\ UnitPrice - calc.book.asks[i].price = calc.our_price
                /\ calc.book.asks[i].price \in FloatOver)) =>
        calc.result = FilteredSum(calc.book, calc.our_price, calc.outcome, calc.own)

\* ------------------------------------------------ the admissibility test
\* Line 607: settings.min_spread or 0.2; twice the spread, in ticks.
MinSpreadOr(min_spread2) == IF min_spread2 = 0 THEN DefaultMinSpread2 ELSE min_spread2

\* Line 601: settings.min_liquidity_usdt or 0.0; {} is None.
MinLiquidityOr(min_liquidity) ==
    IF min_liquidity = {} THEN 0 ELSE CHOOSE x \in min_liquidity : TRUE

\* Lines 598-601: the threshold of the liquidity test.
EffectiveMin(auto, target, min_liquidity) ==
    IF auto THEN TargetOr(target) ELSE MinLiquidityOr(min_liquidity)

\* Lines 603-637: can_place of one outcome, from the liquidity ahead of its
\* buy price, that price and the mid.
CanPlaceOf(liquidity, auto, target, min_liquidity, mid2, price, min_spread2) ==
    /\ liquidity >= EffectiveMin(auto, target, min_liquidity)
    /\ CanPlaceSpread(mid2, price, MinSpreadOr(min_spread2))

Liquidities == {0, 600, 3000, DefaultTarget}
MinLiquidities == {{}, {0}, {600}}
MinSpreads2 == {0, 2, DefaultMinSpread2, 20}
CanPrices == {MinTick, 2, 500}
CanMids2 == {2, 4, 5, 30, 1000}

\* The test of lines 596-637 for one outcome, under any settings.
InitCan ==
    /\ AtRest
    /\ last_orderbook = NoBook
    /\ budget = [n |-> 0, kinds |-> {}]
    /\ sz = IdleSz
    /\ \E auto \in BOOLEAN, target \in Targets, min_liquidity \in MinLiquidities,
          min_spread2 \in MinSpreads2 :
       \E liquidity \in Liquidities, price \in CanPrices, mid2 \in CanMids2 :
         calc = [pc |-> "can", auto |-> auto, target |-> target,
                 min_liquidity |-> min_liquidity, min_spread2 |-> min_spread2,
                 liquidity |-> liquidity, price |-> price, mid2 |-> mid2,
                 can |-> FALSE]

DecideCan ==
    /\ calc.pc = "can"
    /\ CalcStep([calc EXCEPT
            !.pc = "decided",
            !.can = CanPlaceOf(calc.liquidity, calc.auto, calc.target,
                               calc.min_liquidity, calc.mid2, calc.price,
                               calc.min_spread2)])

NextCan == DecideCan

SpecCan == InitCan /\ [][NextCan]_vars

\* |mid - price| < min_spread, on doubled ticks.
SpreadBelow(mid2, price, min_spread2) ==
    mid2 - 2 * price < min_spread2 /\ 2 * price - mid2 < min_spread2

\* The configured threshold of the liquidity test, as C31 reads it.
ConfiguredMin(auto, target, min_liquidity) ==
    IF auto THEN target
    ELSE IF min_liquidity = {} THEN 0 ELSE CHOOSE x \in min_liquidity : TRUE

\* C31: can_place is (liquidity ahead >= configured threshold: the target
\* with auto-spread, the minimal liquidity without) and can_place_spread,
\* which is false only for a price at the floor that is closer to the mid than
\* the configured minimal spread; for every configured value, zero included.
C31_CanPlaceFromConfiguredThresholds ==
    calc.pc = "decided" =>
        calc.can =
            (/\ calc.liquidity >= ConfiguredMin(calc.auto, calc.target, calc.min_liquidity)
             /\ ~(calc.price <= MinTick
                  /\ SpreadBelow(calc.mid2, calc.price, calc.min_spread2)))

\* The part that holds: the same for a target and a minimal spread that are
\* not zero.
C31_ForNonZeroThresholds ==
    (calc.pc = "decided" /\ (calc.auto => calc.target # 0) /\ calc.min_spread2 # 0) =>
        calc.can =
            (/\ calc.liquidity >= ConfiguredMin(calc.auto, calc.target, calc.min_liquidity)
             /\ ~(calc.price <= MinTick
                  /\ SpreadBelow(calc.mid2, calc.price, calc.min_spread2)))

\* ------------------------------------- the sections of OrderManager.lock
\* threading.Lock (order_manager.py 100) is taken by `with self.lock` and is
\* not reentrant. Here every section is two steps, the acquisition and the
\* section itself, which ends with the release. lock names its holder.
CallHolder(c) ==
    CASE c[1] = "p" /\ c[3] = "yes" -> "place_yes"
      [] c[1] = "p" /\ c[3] = "no" -> "place_no"
      [] c[1] = "a" /\ c[3] = "yes" -> "cancel_yes"
      [] c[1] = "a" /\ c[3] = "no" -> "cancel_no"
      [] c[1] = "r" /\ c[3] = "yes" -> "reactive_yes"
      [] OTHER -> "reactive_no"

PfqHolder(k) == "preliminary_" \o ToString(k)

\* `with self.lock:` is entered: the thread waits until the lock is free.
Acquire(who) == lock = "free" /\ lock' = who

\* The `with` block is left, by its end or by a return inside it.
Release(who) == lock = who /\ lock' = "free"

\* A faulty variant of PlaceYesRelease: place_order is called inside the block.
PlaceYesRelease_CallInside(who) == lock = who /\ lock' = who

\* Lines 939-943 and 957-961: the block of place_yes / place_no holds the
\* read of the slot only; place_order is called after it.
PlaceYesRelease(who) == Release(who)

\* Lines 900-901: place_orders_from_preliminary comes to its first block.
EnterLock(k) ==
    /\ pfq[k].pc = "start"
    /\ Acquire(PfqHolder(k))
    /\ pfq' = [pfq EXCEPT ![k].pc = "entering"]
    /\ UNCHANGED <<reader, setVars, active, stats, last_mid, om_placing, exch, next_id,
                   budget, token_ok, call, rc, ca, guiVars>>

\* Lines 901-919: the flag is tested and set inside the block; the flush or
\* the two placement threads are started after it.
Entered(k) ==
    /\ pfq[k].pc = "entering"
    /\ Release(PfqHolder(k))
    /\ IF PfqGuarded(om_placing)
       THEN /\ pfq' = [pfq EXCEPT ![k].pc = "exit", ![k].result = "ok"]
            /\ UNCHANGED <<om_placing, last_mid, call>>
       ELSE /\ om_placing' = TRUE
            /\ IF MidMoved(last_mid, pfq[k].mid)
               THEN /\ call' = [c \in CallIds |->
                            IF c[1] = "p" THEN NewCancel ELSE call[c]]
                    /\ pfq' = [pfq EXCEPT ![k].pc = "flush"]
                    /\ UNCHANGED last_mid
               ELSE /\ last_mid' = pfq[k].mid
                    /\ pfq' = [pfq EXCEPT ![k].pc = "place",
                                  ![k].sub = [o \in Outcomes |-> "check"]]
                    /\ UNCHANGED call
    /\ UNCHANGED <<reader, setVars, active, stats, exch, next_id, budget, token_ok, rc,
                   ca, guiVars>>

\* Line 939 / 957: the thread of place_yes / place_no comes to its block.
CheckLock(k, o) ==
    /\ pfq[k].pc = "place" /\ pfq[k].valid /\ pfq[k].sub[o] = "check"
    /\ Acquire(CallHolder(PCall(o)))
    /\ pfq' = [pfq EXCEPT ![k].sub[o] = "checking"]
    /\ UNCHANGED <<reader, setVars, active, stats, last_mid, om_placing, exch, next_id,
                   budget, token_ok, call, rc, ca, guiVars>>

\* Lines 940-954: has_active is read inside the block; then place_order, or
\* a skip.
Checked(k, o) ==
    /\ pfq[k].pc = "place" /\ pfq[k].sub[o] = "checking"
    /\ PlaceYesRelease(CallHolder(PCall(o)))
    /\ IF ShouldPlace(pfq[k].can[o], active[o])
       THEN /\ call' = [call EXCEPT ![PCall(o)] =
                    NewPlace(QuotePrice(pfq[k].mid, o),
                             SharesFor(QuotePrice(pfq[k].mid, o)))]
            /\ pfq' = [pfq EXCEPT ![k].sub[o] = "placing"]
       ELSE /\ pfq' = [pfq EXCEPT ![k].sub[o] = "skipped"]
            /\ UNCHANGED call
    /\ UNCHANGED <<reader, setVars, active, stats, last_mid, om_placing, exch, next_id,
                   budget, token_ok, rc, ca, guiVars>>

\* Line 491: place_order has a success body and comes to its block.
InstallLock(c) ==
    /\ call[c].op = "place" /\ call[c].pc = "resp" /\ call[c].resp = "ok"
    /\ Acquire(CallHolder(c))
    /\ call' = [call EXCEPT ![c].pc = "install"]
    /\ UNCHANGED <<reader, setVars, active, stats, last_mid, om_placing, exch, next_id,
                   budget, token_ok, thrVars, guiVars>>

\* Lines 492-495: the order is installed and counted, the block ends.
Installed(c) ==
    /\ call[c].op = "place" /\ call[c].pc = "install"
    /\ Release(CallHolder(c))
    /\ active' = InstallOrder(active, OutcomeOf(c), call[c])
    /\ stats' = [stats EXCEPT !.placed = @ + 1]
    /\ call' = [call EXCEPT ![c] = Done(@, "ok")]
    /\ UNCHANGED <<reader, setVars, last_mid, om_placing, exch, next_id, budget,
                   token_ok, thrVars, guiVars>>

\* Lines 388-474: any other response; the refresh of the token and the sleep
\* before the next attempt are made here.
PlaceFailed(c) ==
    /\ call[c].op = "place" /\ call[c].pc = "resp" /\ call[c].resp # "ok"
    /\ \E refreshed \in BOOLEAN :
         /\ (call[c].resp # "401jwt" => refreshed)
         /\ call' = [call EXCEPT ![c] = PlaceAfter(@, refreshed)]
    /\ UNCHANGED <<sideVars, active, stats, last_mid, om_placing, exch, next_id, budget,
                   token_ok, thrVars, guiVars>>

\* Line 818: _cancel_orders_by_ids has a success body and comes to its block.
BulkLock(c) ==
    /\ call[c].op = "place" /\ call[c].pc = "bulkresp" /\ call[c].resp = "ok"
    /\ Acquire(CallHolder(c))
    /\ call' = [call EXCEPT ![c].pc = "bulkclear"]
    /\ UNCHANGED <<reader, setVars, active, stats, last_mid, om_placing, exch, next_id,
                   budget, token_ok, thrVars, guiVars>>

\* Lines 819-827, then place_order 405-411.
BulkCleared(c) ==
    /\ call[c].op = "place" /\ call[c].pc = "bulkclear"
    /\ Release(CallHolder(c))
    /\ active' = ClearCancelled(active, call[c].ids)
    /\ stats' = [stats EXCEPT !.cancelled = @ + Cardinality(call[c].ids)]
    /\ call' = [call EXCEPT ![c] = BulkAfter(@)]
    /\ UNCHANGED <<reader, setVars, last_mid, om_placing, exch, next_id, budget,
                   token_ok, thrVars, guiVars>>

\* Lines 828-831: the bulk removal failed, no block is entered.
BulkFailed(c) ==
    /\ call[c].op = "place" /\ call[c].pc = "bulkresp" /\ call[c].resp # "ok"
    /\ call' = [call EXCEPT ![c] = BulkAfter(@)]
    /\ UNCHANGED <<sideVars, active, stats, last_mid, om_placing, exch, next_id, budget,
                   token_ok, thrVars, guiVars>>

\* Line 543: cancel_order comes to its first block.
CancelReadLock(c) ==
    /\ call[c].op = "cancel" /\ call[c].pc = "begin"
    /\ Acquire(CallHolder(c))
    /\ call' = [call EXCEPT ![c].pc = "reading"]
    /\ UNCHANGED <<reader, setVars, active, stats, last_mid, om_placing, exch, next_id,
                   budget, token_ok, thrVars, guiVars>>

\* Lines 544-552: the slot and its order id are read; the return of an empty
\* slot leaves the block as its end does.
CancelRead(c) ==
    /\ call[c].op = "cancel" /\ call[c].pc = "reading"
    /\ Release(CallHolder(c))
    /\ call' = [call EXCEPT ![c] =
            IF NothingToCancel(active[OutcomeOf(c)]) \/ NoOrderId(active[OutcomeOf(c)])
            THEN Done(@, "fail")
            ELSE [@ EXCEPT !.pc = "req", !.attempt = 1,
                           !.oid = active[OutcomeOf(c)].order_id,
                           !.price = active[OutcomeOf(c)].price]]
    /\ UNCHANGED <<reader, setVars, active, stats, last_mid, om_placing, exch, next_id,
                   budget, token_ok, thrVars, guiVars>>

\* Lines 579 and 647: a 404 or a success body, cancel_order comes to the
\* block that empties the slot.
CancelClearLock(c) ==
    /\ call[c].op = "cancel" /\ call[c].pc = "resp" /\ CancelSucceeded(call[c].resp)
    /\ Acquire(CallHolder(c))
    /\ call' = [call EXCEPT ![c].pc = "clear"]
    /\ UNCHANGED <<reader, setVars, active, stats, last_mid, om_placing, exch, next_id,
                   budget, token_ok, thrVars, guiVars>>

\* Lines 580-582 and 648-652.
CancelCleared(c) ==
    /\ call[c].op = "cancel" /\ call[c].pc = "clear"
    /\ Release(CallHolder(c))
    /\ active' = [active EXCEPT ![OutcomeOf(c)] = Absent]
    /\ stats' = [stats EXCEPT !.cancelled = @ + 1]
    /\ call' = [call EXCEPT ![c] = Done(@, "ok")]
    /\ UNCHANGED <<reader, setVars, last_mid, om_placing, exch, next_id, budget,
                   token_ok, thrVars, guiVars>>

\* Lines 583-643 and 653-682: any other response; the refresh of the token
\* and the sleep before the next attempt are made here.
CancelFailed(c) ==
    /\ call[c].op = "cancel" /\ call[c].pc = "resp" /\ ~CancelSucceeded(call[c].resp)
    /\ \E refreshed \in BOOLEAN :
         /\ (call[c].resp # "401jwt" => refreshed)
         /\ call' = [call EXCEPT ![c] = CancelAfter(@, refreshed)]
    /\ UNCHANGED <<sideVars, active, stats, last_mid, om_placing, exch, next_id, budget,
                   token_ok, thrVars, guiVars>>

\* Lines 921-926 and 974-983: the two threads are joined (a quote without
\* buy_yes or buy_no returns False before they are started); the finally
\* is next.
Joined(k) ==
    /\ pfq[k].pc = "place"
    /\ pfq[k].valid => \A o \in Outcomes : PfqSubDone(k, o)
    /\ pfq' = [pfq EXCEPT ![k].pc = "finally",
                  ![k].result = IF pfq[k].valid /\ \A o \in Outcomes : PfqSubOk(k, o)
                                THEN "ok" ELSE "fail"]
    /\ call' = [c \in CallIds |-> IF c[1] = "p" THEN IdleCall ELSE call[c]]
    /\ UNCHANGED <<sideVars, active, stats, last_mid, om_placing, exch, next_id, budget,
                   token_ok, rc, ca, guiVars>>

\* Line 986: the finally comes to its block.
LeaveLock(k) ==
    /\ pfq[k].pc = "finally"
    /\ Acquire(PfqHolder(k))
    /\ pfq' = [pfq EXCEPT ![k].pc = "leaving"]
    /\ UNCHANGED <<reader, setVars, active, stats, last_mid, om_placing, exch, next_id,
                   budget, token_ok, call, rc, ca, guiVars>>

\* Line 987: placing_orders is reset, the call returns.
Left(k) ==
    /\ pfq[k].pc = "leaving"
    /\ Release(PfqHolder(k))
    /\ om_placing' = FALSE
    /\ pfq' = [pfq EXCEPT ![k].pc = "exit"]
    /\ UNCHANGED <<reader, setVars, active, stats, last_mid, exch, next_id, budget,
                   token_ok, call, rc, ca, guiVars>>

\* cancel_all_orders, lines 858-883, called on its own: the two threads of
\* cancel_yes and cancel_no are started.
CancelAllStart ==
    /\ events < MaxLockOps
    /\ events' = events + 1
    /\ \A o \in Outcomes : call[ACall(o)].pc = "idle"
    /\ call' = [c \in CallIds |-> IF c[1] = "a" THEN NewCancel ELSE call[c]]
    /\ UNCHANGED <<sideVars, active, stats, last_mid, om_placing, exch, next_id, budget,
                   token_ok, thrVars, orders_placed, cancelling, placing, g_placing,
                   last_orderbook, auto_spread>>

\* Lines 880-883: both threads are joined.
CancelAllJoin ==
    /\ \A o \in Outcomes : call[ACall(o)].pc = "done"
    /\ call' = [c \in CallIds |-> IF c[1] = "a" THEN IdleCall ELSE call[c]]
    /\ UNCHANGED <<sideVars, active, stats, last_mid, om_placing, exch, next_id, budget,
                   token_ok, thrVars, guiVars>>

LockFaultKinds ==
    {<<"place", "400ic">>, <<"place", "401jwt">>, <<"cancel", "net">>, <<"bulk", "unsucc">>}

\* The quotes of the callers: both outcomes admissible, at either mid price.
LockBooks == {b \in Books : \A o \in Outcomes : CanPlace(b, o)}

\* The program quotes a book, both orders resting.
InitLock ==
    /\ AtRest
    /\ last_orderbook \in LockBooks
    /\ budget = [n |-> LockFaults, kinds |-> LockFaultKinds]
    /\ sz = IdleSz
    /\ calc = IdleCalc

\* A caller starts place_orders_from_preliminary, or get_active_orders.
PreliminaryStart(book) == events < MaxLockOps /\ Invoke(book, TRUE)
ReadOrdersStart == events < MaxLockOps /\ ReadStart("orders")

Threads ==
    \/ \E k \in PfqIds : EnterLock(k) \/ Entered(k) \/ PfqFlushJoin(k) \/ Joined(k)
                            \/ LeaveLock(k) \/ Left(k) \/ PfqExit(k)
    \/ \E k \in PfqIds, o \in Outcomes : CheckLock(k, o) \/ Checked(k, o)
    \/ \E c \in CallIds, r \in PlaceResponses : PlaceRequest(c, r)
    \/ \E c \in CallIds : InstallLock(c) \/ Installed(c) \/ PlaceFailed(c)
    \/ \E c \in CallIds, r \in ListResponses : ListRequest(c, r)
    \/ \E c \in CallIds : ListHandle(c)
    \/ \E c \in CallIds, r \in BulkResponses : BulkRequest(c, r)
    \/ \E c \in CallIds : BulkLock(c) \/ BulkCleared(c) \/ BulkFailed(c)
    \/ \E c \in CallIds : CancelReadLock(c) \/ CancelRead(c)
    \/ \E c \in CallIds, r \in CancelResponses : CancelRequest(c, r)
    \/ \E c \in CallIds : CancelClearLock(c) \/ CancelCleared(c) \/ CancelFailed(c)
    \/ CancelAllJoin
    \/ ReadAcquire
    \/ ReadWait
    \/ ReadTimeout
    \/ ReadReturn
    \/ ReadEnd

NextLock ==
    \/ \E book \in LockBooks : PreliminaryStart(book)
    \/ CancelAllStart
    \/ ReadOrdersStart
    \/ Threads

\* Every started thread goes on running.
SpecLock == InitLock /\ [][NextLock]_vars /\ WF_vars(Threads)

\* The program points inside a `with self.lock` block.
InBlock(who) ==
    \/ \E c \in CallIds :
         /\ who = CallHolder(c)
         /\ \/ call[c].pc \in {"install", "bulkclear", "reading", "clear"}
            \/ c[1] = "p" /\ call[c].pc = "idle"
                 /\ \E k \in PfqIds : pfq[k].pc = "place" /\ pfq[k].sub[c[3]] = "checking"
    \/ \E k \in PfqIds : who = PfqHolder(k) /\ pfq[k].pc \in {"entering", "leaving"}
    \/ who = "reader" /\ reader.pc = "locked"

\* The program points at which a thread is at an API request, at the refresh
\* of the token or the sleep that follow a response, or at a join (which
\* spans the settle delay of the threads joined).
Blocked(who) ==
    \/ \E c \in CallIds :
         /\ who = CallHolder(c)
         /\ call[c].pc \in {"req", "resp", "list", "listresp", "bulk", "bulkresp"}
    \/ \E k \in PfqIds : who = PfqHolder(k) /\ pfq[k].pc \in {"flush", "place"}

\* The program points at which a thread waits for the lock.
Waiting(who) ==
    \/ \E c \in CallIds :
         /\ who = CallHolder(c)
         /\ \/ call[c].pc = "begin"
            \/ call[c].pc = "resp" /\ call[c].resp = "ok"
            \/ call[c].op = "cancel" /\ call[c].pc = "resp" /\ call[c].resp = "404"
            \/ c[1] = "p" /\ call[c].pc = "idle"
                 /\ \E k \in PfqIds : pfq[k].pc = "place" /\ pfq[k].sub[c[3]] = "check"
    \/ \E k \in PfqIds : who = PfqHolder(k) /\ pfq[k].pc \in {"start", "finally"}
    \/ who = "reader" /\ reader.pc = "acquire"

LockUsers ==
    {CallHolder(c) : c \in CallIds} \cup {PfqHolder(k) : k \in PfqIds} \cup {"reader"}

C32_HolderInBlock ==
    /\ lock \in LockUsers \cup {"free"}
    /\ \A who \in LockUsers :
         /\ lock = who => InBlock(who) /\ ~Blocked(who)
         /\ Waiting(who) => lock # who

\* C32: the mutex is held only inside a block that reads or writes the
\* manager's state, never while its holder is at an API request, a token
\* refresh, a sleep or a join; a thread that comes to a block does not hold
\* the mutex already; and every acquisition is released, so that every
\* thread that waits for the mutex gets past it or gives up.
C32_LockSectionsShortAndReleased ==
    /\ []C32_HolderInBlock
    /\ []<>(lock = "free" /\ \A who \in LockUsers : ~Waiting(who))

\* A placement thread holds the mutex for its check while another thread
\* has an API request in flight and a third waits for the mutex.
C32_Witness ==
    /\ lock = CallHolder(PCall("yes"))
    /\ \E c \in CallIds : call[c].pc = "req"
    /\ \E who \in LockUsers : Waiting(who)

\* The step in which the cancel_order run by c ends with True.
CancelCompletes(c) ==
    /\ call[c].op = "cancel" /\ call[c].pc = "resp"
    /\ call'[c].pc = "done" /\ call'[c].result = "ok"

\* C33: a cancel that completes (success or 404) changes the slot of its
\* outcome only if the slot still holds the order its request named; an
\* order installed after the request was issued stays in the slot.
C33_ClearsOnlyTheOrderNamed ==
    [][\A c \in CallIds :
          (CancelCompletes(c) /\ active[OutcomeOf(c)].order_id # call[c].oid)
              => active'[OutcomeOf(c)] = active[OutcomeOf(c)]]_vars

\* ------------------------------------------ the order id of a placement
\* data of a success body: the id of the new order under "id", under
\* "orderId", or under neither key. A key that is missing is {}.
IdKeys == {"id", "orderId", "none"}

BodyOf(id, key) ==
    [id |-> IF key = "id" THEN {id} ELSE {},
     orderId |-> IF key = "orderId" THEN {id} ELSE {}]

\* Lines 480 and 484: order_data.get("id") or order_data.get("orderId"),
\* kept as str(order_id) if there is one and as None otherwise.
OrderIdOf(data) ==
    IF data.id # {} THEN CHOOSE v \in data.id : TRUE
    ELSE IF data.orderId # {} THEN CHOOSE v \in data.orderId : TRUE
    ELSE NoId

\* requests.post(/v1/orders) is answered with a success body: the order
\* rests at the API, the body names it under key.
PlaceAccepted(c, key) ==
    /\ call[c].op = "place" /\ call[c].pc = "req"
    /\ exch' = exch \cup {[id |-> next_id, o |-> OutcomeOf(c)]}
    /\ next_id' = next_id + 1
    /\ call' = [call EXCEPT ![c] = [@ EXCEPT !.pc = "resp", !.resp = "ok",
                    !.rid = OrderIdOf(BodyOf(next_id, key)), !.nreq = @ + 1]]
    /\ UNCHANGED <<sideVars, active, stats, last_mid, om_placing, budget, token_ok,
                   guiVars, thrVars>>

\* A caller runs place_order or cancel_order for outcome o, one call at a
\* time for each outcome.
CallerStarts(o, rec) ==
    /\ events < MaxIdCalls
    /\ events' = events + 1
    /\ call[RCall(o)].pc \in {"idle", "done"}
    /\ call' = [call EXCEPT ![RCall(o)] = rec]
    /\ UNCHANGED <<sideVars, active, stats, last_mid, om_placing, exch, next_id, budget,
                   token_ok, thrVars, orders_placed, cancelling, placing, g_placing,
                   last_orderbook, auto_spread>>

\* Nothing is quoted, and the API accepts every request.
InitId ==
    /\ AtRest
    /\ last_orderbook = NoBook
    /\ budget = [n |-> 0, kinds |-> {}]
    /\ sz = IdleSz
    /\ calc = IdleCalc

NextId ==
    \/ \E o \in Outcomes : CallerStarts(o, NewPlace(2, SharesFor(2)))
    \/ \E o \in Outcomes : CallerStarts(o, NewCancel)
    \/ \E o \in Outcomes, key \in IdKeys : PlaceAccepted(RCall(o), key)
    \/ \E o \in Outcomes : PlaceHandle(RCall(o))
    \/ \E o \in Outcomes, r \in CancelResponses : CancelBegin(RCall(o), r)
    \/ \E o \in Outcomes : CancelHandle(RCall(o))

SpecId == InitId /\ [][NextId]_vars

\* cancel_order looks at the slot of its outcome and returns or goes on.
CancelLooks(c) == call[c].op = "cancel" /\ call[c].pc = "begin" /\ call'[c].pc # "begin"

\* C34: an order installed in a slot carries an order id, and a cancel of an
\* outcome whose slot is active issues a cancel request for that order.
C34_ActiveSlotCanBeCancelled ==
    /\ [](\A o \in Outcomes : active[o] # Absent => active[o].order_id # NoId)
    /\ [][\A c \in CallIds :
            (CancelLooks(c) /\ active[OutcomeOf(c)] # Absent)
                => (call'[c].nreq = 1 /\ call'[c].oid = active[OutcomeOf(c)].order_id)]_vars

\* As C34, for the orders whose success body named an id.
C34_OrdersWithIdCanBeCancelled ==
    [][\A c \in CallIds :
          (CancelLooks(c) /\ active[OutcomeOf(c)] # Absent
                /\ active[OutcomeOf(c)].order_id # NoId)
              => (call'[c].nreq = 1 /\ call'[c].oid = active[OutcomeOf(c)].order_id)]_vars

\* No thread of the market is running.
NothingInFlight ==
    /\ \A c \in CallIds : call[c].pc = "idle"
    /\ \A k \in PfqIds : pfq[k].pc = "idle"
    /\ \A o \in Outcomes : rc[o].pc = "idle"
    /\ ca # "run"

\* Quoting was disabled, cancel_all_orders has returned, and the API has
\* answered no request abnormally.
DisabledAndSettled ==
    /\ ~orders_placed
    /\ ca \in {"ok", "fail"}
    /\ NothingInFlight
    /\ budget.n = MaxFaults

\* C35: after quoting was disabled, once every operation in flight has
\* finished and the API accepted every cancel request, both slots are absent
\* and no order of the market rests at the API.
C35_DisabledLeavesNoOrder ==
    DisabledAndSettled => (\A o \in Outcomes : active[o] = Absent) /\ exch = {}

\* ------------------------------------- enabling with a book already seen
\* The program has been constructed and has seen a book while quoting was
\* disabled: nothing is placed, the book is kept as last_orderbook.
InitGuard ==
    /\ last_orderbook \in {b \in Books : b.mid = 1}
    /\ last_mid = 0
    /\ orders_placed = FALSE
    /\ active = [o \in Outcomes |-> Absent]
    /\ exch = {}
    /\ stats = [placed |-> 0, cancelled |-> 0]
    /\ om_placing = FALSE
    /\ next_id = 3
    /\ token_ok = TRUE
    /\ call = [c \in CallIds |-> IdleCall]
    /\ pfq = [k \in PfqIds |-> IdlePfq]
    /\ rc = [o \in Outcomes |-> IdleRc]
    /\ ca = "idle"
    /\ cancelling = [o \in Outcomes |-> FALSE]
    /\ placing = [o \in Outcomes |-> FALSE]
    /\ g_placing = FALSE
    /\ auto_spread = TRUE
    /\ events = 0
    /\ lock = "free"
    /\ reader = IdleReader
    /\ store = {}
    /\ file = NoFile
    /\ ws = IdleWs
    /\ budget = [n |-> MaxFaults, kinds |-> SpecFaults]
    /\ sz = IdleSz
    /\ calc = IdleCalc

SpecGuard == InitGuard /\ [][Next]_vars

\* place_order for outcome o, called by a _place_orders_thread, has not
\* returned yet.
PlacementInFlight(o) ==
    /\ call[PCall(o)].op = "place" /\ call[PCall(o)].pc # "done"
    /\ \E k \in PfqIds : pfq[k].pc = "place" /\ pfq[k].sub[o] = "placing"

\* C36: while a placement request for an outcome is in flight, no step
\* clears the placing guard of that outcome or the market-wide
\* placing_orders guard.
C36_GuardsKeptWhileInFlight ==
    [][\A o \in Outcomes :
          PlacementInFlight(o)
              => (placing[o] => placing'[o]) /\ (g_placing => g_placing')]_vars

\* The orders that have existed for the market in a run that started with
\* none: the API hands out the ids 3, 4, ... in turn.
OrdersExisted == next_id - 3

\* C37: the cancelled counter never exceeds the number of orders that have
\* existed for the market (no order is counted twice).
C37_CancelledAtMostOncePerOrder == stats.cancelled <= OrdersExisted

\* ----------------------------------- the walker and the liquidity ahead
\* Sorted books with deep levels: up to two bid levels below up to two ask
\* levels, no own order, a maximal spread that caps nothing.
WalkShares == {4, 10000}
WalkBooks ==
    {[bids |-> SortedDown(bp, bs), asks |-> SortedUp(ap, as)] :
        <<bp, bs, ap, as>> \in
            {q \in (SUBSET {500, 850}) \X [{500, 850} -> WalkShares]
                    \X (SUBSET {900, 950}) \X [{900, 950} -> WalkShares] :
                q[1] # {} /\ q[3] # {}}}

InitWalk ==
    /\ AtRest
    /\ last_orderbook = NoBook
    /\ budget = [n |-> 0, kinds |-> {}]
    /\ sz = IdleSz
    /\ \E precision \in Precisions, target \in {0, 600, 40000}, book \in WalkBooks :
         calc = [pc |-> "auto", precision |-> precision, book |-> book,
                 target |-> target, max_spread |-> UnitPrice,
                 own |-> [o \in Outcomes |-> {}],
                 min_spread2 |-> DefaultMinSpread2,
                 found |-> [o \in Outcomes |-> 0],
                 buy |-> [o \in Outcomes |-> 0],
                 enough |-> [o \in Outcomes |-> FALSE],
                 can |-> [o \in Outcomes |-> FALSE]]

SpecWalk == InitWalk /\ [][NextAuto]_vars

\* The walker reached the target at a level of the side of o, and the buy
\* price is the price it returned.
WalkerPriceKept(o) ==
    /\ calc.pc = "done"
    /\ calc.own[o] = {}
    /\ ~Exhausted(o)
    /\ calc.buy[o] = calc.found[o]

\* C38: on a sorted book, with no own order and a price that neither the
\* cap nor the clamp altered, the liquidity ahead of the walker's price is
\* found to be at least the target, for both outcomes.
C38_WalkerPriceHasTargetAhead ==
    \A o \in Outcomes : WalkerPriceKept(o) => calc.enough[o]

\* As C38 for Yes, and for No when the liquidity ahead is not exactly the
\* target or no level ahead has an ask price of FloatUnder.
C38_ExceptShortSum ==
    \A o \in Outcomes :
        (/\ WalkerPriceKept(o)
         /\ \/ LiquidityBefore(calc.book, calc.buy[o], o, {}) # TargetOr(calc.target)
            \/ ~MayFallShort(calc.book, calc.buy[o], o))
            => calc.enough[o]

\* ------------------------------------------- the market-data client (C39)
\* PredictWebSocketClient has two threads: the one run_ws starts, on which the
\* library runs _on_open and _on_close one after the other, and the thread of
\* whoever calls subscribe_orderbook and unsubscribe_orderbook.  No lock guards
\* self.subscriptions.  ws.subscriptions is the key set of that dictionary,
\* ws.sent the markets a subscribe request went out for on the connection now
\* open (less those an unsubscribe request followed), ws.todo what is left of
\* the list _on_open iterates, ws.pend the market of a caller's
\* subscribe_orderbook between its two steps.  ws.wanted and ws.dropped record
\* the history: the markets passed to subscribe_orderbook and not later
\* unsubscribed, and the markets removed by unsubscribe_orderbook and not
\* passed again by a caller since.

WsMarkets == {"m1", "m2"}

\* All other components stay as constructed while the client runs.
WsFrame ==
    UNCHANGED <<active, stats, last_mid, om_placing, exch, next_id, budget,
                token_ok, guiVars, thrVars, call, lock, reader, store, file, sz,
                calc>>

\* connect() (193-221): nothing when already running; else running is set and
\* the thread of run_ws starts.
Connect ==
    /\ ~ws.running /\ ~ws.connected /\ ws.pc = "idle"
    /\ ws' = [ws EXCEPT !.running = TRUE]
    /\ WsFrame

\* disconnect() (291-296): running is cleared, the socket closed and
\* connected cleared.
Disconnect ==
    /\ ws.running
    /\ ws' = [ws EXCEPT !.running = FALSE, !.connected = FALSE, !.sent = {}]
    /\ WsFrame

\* _on_open, lines 156-168: a connection of run_ws's loop opened; connected is
\* set, then the handler sleeps half a second.
WsOpen ==
    /\ ws.running /\ ~ws.connected /\ ws.pc = "idle"
    /\ ws' = [ws EXCEPT !.connected = TRUE, !.pc = "opened", !.sent = {}]
    /\ WsFrame

\* _on_open, line 175: list(self.subscriptions.keys()) is taken once.
WsSnapshot ==
    /\ ws.pc = "opened"
    /\ ws' = [ws EXCEPT !.pc = "loop", !.todo = ws.subscriptions]
    /\ WsFrame

\* The body of subscribe_orderbook (231-261) as one thread runs it: the market
\* is stored if missing, and a request is sent when connected.
Stored(w, m) == [w EXCEPT !.subscriptions = @ \cup {m}]
Requested(w, m) == IF w.connected THEN [w EXCEPT !.sent = @ \cup {m}] ELSE w

\* _on_open, lines 175-176: one turn of the loop over the list taken.
WsLoopStep(m) ==
    /\ ws.pc = "loop" /\ m \in ws.todo
    /\ ws' = [Requested(Stored(ws, m), m) EXCEPT !.todo = @ \ {m}]
    /\ WsFrame

\* _on_open returns.
WsLoopEnd ==
    /\ ws.pc = "loop" /\ ws.todo = {}
    /\ ws' = [ws EXCEPT !.pc = "idle"]
    /\ WsFrame

\* _on_close (135-151), run by the same thread as _on_open and so never inside
\* it: connected is cleared; while running, run_ws opens the next connection.
WsClose ==
    /\ ws.connected /\ ws.pc = "idle"
    /\ ws' = [ws EXCEPT !.connected = FALSE, !.sent = {}]
    /\ WsFrame

\* A caller's subscribe_orderbook(m), lines 231-232: the market is stored.
Subscribe(m) ==
    /\ ws.pend = {}
    /\ ws' = [Stored(ws, m) EXCEPT !.pend = {m}, !.wanted = @ \cup {m},
                                   !.dropped = @ \ {m}]
    /\ WsFrame

\* A caller's subscribe_orderbook(m), lines 234-261: returns when not
\* connected, else numbers and sends the request.
SubscribeSend(m) ==
    /\ ws.pend = {m}
    /\ ws' = [Requested(ws, m) EXCEPT !.pend = {}]
    /\ WsFrame

\* A caller's unsubscribe_orderbook(m) (263-289): nothing for a market not
\* stored; else the entry is deleted and, when connected, an unsubscribe
\* request sent.
Unsubscribe(m) ==
    /\ ws.pend = {}
    /\ ws' = IF m \in ws.subscriptions
             THEN [ws EXCEPT !.subscriptions = @ \ {m}, !.sent = @ \ {m},
                             !.wanted = @ \ {m}, !.dropped = @ \cup {m}]
             ELSE ws
    /\ m \in ws.subscriptions
    /\ WsFrame

\* The GUI builds the client before any order book has arrived (gui.py
\* 3290-3301).
InitWs ==
    /\ AtRest
    /\ last_orderbook = NoBook
    /\ budget = [n |-> 0, kinds |-> {}]
    /\ sz = IdleSz
    /\ calc = IdleCalc

NextWs ==
    \/ Connect
    \/ Disconnect
    \/ WsOpen
    \/ WsSnapshot
    \/ \E m \in WsMarkets : WsLoopStep(m)
    \/ WsLoopEnd
    \/ WsClose
    \/ \E m \in WsMarkets : Subscribe(m)
    \/ \E m \in WsMarkets : SubscribeSend(m)
    \/ \E m \in WsMarkets : Unsubscribe(m)

SpecWs == InitWs /\ [][NextWs]_vars

\* The connection is open and no handler or call is under way.
WsSettled == ws.connected /\ ws.pc = "idle" /\ ws.pend = {}

\* C39: every market passed to subscribe_orderbook and not later unsubscribed
\* is sent a subscribe request after each connection open, and a market
\* removed by unsubscribe_orderbook is not subscribed again: it is neither
\* stored for the next connection nor requested on this one.
C39_ResubscribesExactlyTheWanted ==
    /\ WsSettled => ws.wanted \subseteq ws.sent
    /\ ws.dropped \cap (ws.subscriptions \cup ws.sent) = {}

\* The first half alone: once _on_open has returned on an open connection,
\* every wanted market has had its subscribe request.
C39_WantedAreRequested ==
    /\ ws.wanted \subseteq ws.subscriptions
    /\ WsSettled => ws.wanted \subseteq ws.sent

\* A reconnection that re-requested a market subscribed while disconnected.
C39_Reconnected ==
    /\ WsSettled /\ ws.wanted # {} /\ ws.dropped # {}
    /\ ws.wanted \subseteq ws.sent

====
